---- MODULE Spec2Model ----
(***************************************************************************)
(* Move-variation tree editor (ChessBoardWithMoves.tsx) and the PGN        *)
(* import/export pipeline (pgnUtils.ts) of the chess study tool.           *)
(*                                                                         *)
(* Text is a sequence of one-character strings.  A position (FEN) is kept  *)
(* as its fields: board, side to move (field 1) and full-move counter      *)
(* (field 5).  The rules engine (chess.js) is an external collaborator:    *)
(* it is modelled by a fixed table of moves, a move being legal when it is *)
(* the mover's turn and the mover has not already played it.               *)
(***************************************************************************)
EXTENDS Integers, Sequences, FiniteSets, TLC

(* ------------------------------ bounds --------------------------------- *)
\* number of MoveNode objects one behaviour may allocate
MaxNodes == 3
\* number of moves in the movetext of a generated well-formed PGN
MaxMoves == 4
\* nesting depth of the variations of a generated well-formed PGN
MaxDepth == 2
\* number of words of a generated PGN of arbitrary form
MaxWords == 3

Null == 0

(* ------------------------------ text ----------------------------------- *)
E4 == <<"e", "4">>
D4 == <<"d", "4">>
E5 == <<"e", "5">>
C5 == <<"c", "5">>

RECURSIVE Join(_, _)
\* Array.prototype.join
Join(parts, sep) ==
  IF Len(parts) = 0 THEN <<>>
  ELSE IF Len(parts) = 1 THEN parts[1]
  ELSE parts[1] \o sep \o Join(Tail(parts), sep)

\* String.prototype.trim and the \s and \d classes
IsSpace(c) == c \in {" ", "\n", "\t"}
IsDigit(c) == c \in {"0", "1", "2", "3", "4", "5", "6", "7", "8", "9"}

RECURSIVE TrimLeft(_)
TrimLeft(s) ==
  IF Len(s) > 0 /\ IsSpace(s[1]) THEN TrimLeft(Tail(s)) ELSE s

RECURSIVE TrimRight(_)
TrimRight(s) ==
  IF Len(s) > 0 /\ IsSpace(s[Len(s)])
  THEN TrimRight(SubSeq(s, 1, Len(s) - 1))
  ELSE s

Trim(s) == TrimRight(TrimLeft(s))

\* String.prototype.slice(i - 1, j) with 1-based, inclusive bounds
Slice(s, i, j) == SubSeq(s, i, j)

RECURSIVE IndexOf(_, _, _)
\* String.prototype.indexOf(c, from - 1) + 1: 0 when c does not occur
IndexOf(s, c, from) ==
  IF from > Len(s) THEN 0
  ELSE IF s[from] = c THEN from
  ELSE IndexOf(s, c, from + 1)

\* the text s continues with the literal lit at position i
StartsWith(s, i, lit) ==
  /\ i + Len(lit) - 1 <= Len(s)
  /\ \A j \in 1..Len(lit) : s[i + j - 1] = lit[j]

(* ----------------------------- tokenizer ------------------------------- *)
Token(type, value) == [type |-> type, value |-> value]

RECURSIVE StripDirective(_, _, _)
\* String.prototype.replace(/\[%<pre>[^\]]*\]/g, ""), pre a sequence of
\* character sets; i is the position the scan has reached
StripDirective(s, pre, i) ==
  IF i > Len(s) THEN s
  ELSE LET open == /\ s[i] = "["
                   /\ i + 1 + Len(pre) <= Len(s)
                   /\ s[i + 1] = "%"
                   /\ \A j \in 1..Len(pre) : s[i + 1 + j] \in pre[j]
           close == IF open THEN IndexOf(s, "]", i + 2 + Len(pre)) ELSE 0
       IN IF close # 0
          THEN StripDirective(SubSeq(s, 1, i - 1) \o
                                SubSeq(s, close + 1, Len(s)), pre, i)
          ELSE StripDirective(s, pre, i + 1)

filterComment(comment) ==
  LET cal == << {"c", "C"}, {"a", "A"}, {"l", "L"} >>
      csl == << {"c", "C"}, {"s", "S"}, {"l", "L"} >>
  IN Trim(StripDirective(
            StripDirective(StripDirective(comment, cal, 1), csl, 1),
            << >>, 1))

RECURSIVE DigitsEnd(_, _)
\* the position after the run of digits that starts at i
DigitsEnd(s, i) ==
  IF i <= Len(s) /\ IsDigit(s[i]) THEN DigitsEnd(s, i + 1) ELSE i

\* /^(1-0|0-1|1\/2-1\/2|\*)(?:\s|$|[)\s])/ : the result matched at i
ResultLits ==
  << <<"1", "-", "0">>, <<"0", "-", "1">>,
     <<"1", "/", "2", "-", "1", "/", "2">>, <<"*">> >>

ResultAt(s, i) ==
  LET ok(lit) ==
        /\ StartsWith(s, i, lit)
        /\ \/ i + Len(lit) > Len(s)
           \/ IsSpace(s[i + Len(lit)])
           \/ s[i + Len(lit)] = ")"
  IN IF \E k \in 1..Len(ResultLits) : ok(ResultLits[k])
     THEN ResultLits[CHOOSE k \in 1..Len(ResultLits) :
                       /\ ok(ResultLits[k])
                       /\ \A j \in 1..(k - 1) : ~ok(ResultLits[j])]
     ELSE << >>

\* /^(\d+)(\.\.\.|\.)/ : the position after the move number at i, or 0
MoveNumberEnd(s, i) ==
  LET d == DigitsEnd(s, i)
  IN IF d = i THEN 0
     ELSE IF StartsWith(s, d, <<".", ".", ".">>) THEN d + 3
     ELSE IF StartsWith(s, d, <<".">>) THEN d + 1
     ELSE 0

\* /^(\?\?|\?!|!\?|!!|\?|!)/ : the symbolic NAG at i
NagLits ==
  << <<"?", "?">>, <<"?", "!">>, <<"!", "?">>, <<"!", "!">>,
     <<"?">>, <<"!">> >>

SymbolicNagAt(s, i) ==
  IF \E k \in 1..Len(NagLits) : StartsWith(s, i, NagLits[k])
  THEN NagLits[CHOOSE k \in 1..Len(NagLits) :
                 /\ StartsWith(s, i, NagLits[k])
                 /\ \A j \in 1..(k - 1) : ~StartsWith(s, i, NagLits[j])]
  ELSE << >>

\* the character classes of sanRegex, with the i flag
PieceCls == {"K", "Q", "R", "B", "N", "k", "q", "r", "b", "n"}
FileCls ==
  {"a", "b", "c", "d", "e", "f", "g", "h",
   "A", "B", "C", "D", "E", "F", "G", "H"}
RankCls == {"1", "2", "3", "4", "5", "6", "7", "8"}
PromoCls == {"Q", "R", "B", "N", "q", "r", "b", "n"}

\* [KQRBN]?[a-h]?[1-8]?x?[a-h][1-8](?:=[QRBN])?[+#]?
SanElems ==
  << [sets |-> <<PieceCls>>, opt |-> TRUE],
     [sets |-> <<FileCls>>, opt |-> TRUE],
     [sets |-> <<RankCls>>, opt |-> TRUE],
     [sets |-> <<{"x", "X"}>>, opt |-> TRUE],
     [sets |-> <<FileCls>>, opt |-> FALSE],
     [sets |-> <<RankCls>>, opt |-> FALSE],
     [sets |-> <<{"="}, PromoCls>>, opt |-> TRUE],
     [sets |-> <<{"+", "#"}>>, opt |-> TRUE] >>

RECURSIVE MatchElems(_, _, _, _)
\* backtracking match of elems[k..] at i: the position after the match,
\* or 0; a greedy optional element is tried taken first, then skipped
MatchElems(s, i, elems, k) ==
  IF k > Len(elems) THEN i
  ELSE LET e == elems[k]
           n == Len(e.sets)
           fits == /\ i + n - 1 <= Len(s)
                   /\ \A j \in 1..n : s[i + j - 1] \in e.sets[j]
           taken == IF fits THEN MatchElems(s, i + n, elems, k + 1) ELSE 0
       IN IF taken # 0 THEN taken
          ELSE IF e.opt THEN MatchElems(s, i, elems, k + 1)
          ELSE 0

\* the castling alternatives of sanRegex, in order, with the i flag
CastleElems ==
  << << {"O", "o"}, {"-"}, {"O", "o"}, {"-"}, {"O", "o"} >>,
     << {"O", "o"}, {"-"}, {"O", "o"} >>,
     << {"0"}, {"-"}, {"0"}, {"-"}, {"0"} >>,
     << {"0"}, {"-"}, {"0"} >> >>

CastleFits(s, i, k) ==
  /\ i + Len(CastleElems[k]) - 1 <= Len(s)
  /\ \A j \in 1..Len(CastleElems[k]) : s[i + j - 1] \in CastleElems[k][j]

\* the position after the SAN matched by sanRegex at i, or 0
SanEnd(s, i) ==
  IF \E k \in 1..4 : CastleFits(s, i, k)
  THEN i + Len(CastleElems[CHOOSE k \in 1..4 :
                              /\ CastleFits(s, i, k)
                              /\ \A j \in 1..(k - 1) : ~CastleFits(s, i, j)])
  ELSE MatchElems(s, i, SanElems, 1)

\* san.replace(/0-0-0/g, "O-O-O").replace(/0-0/g, "O-O")
NormalizeCastling(san) ==
  IF san = <<"0", "-", "0", "-", "0">> THEN <<"O", "-", "O", "-", "O">>
  ELSE IF san = <<"0", "-", "0">> THEN <<"O", "-", "O">>
  ELSE san

\* one iteration of the scanning loop of tokenizePgn at position i:
\* the next position, the tokens pushed and whether the loop breaks
ScanAbort(next, toks, stop) ==
  [next |-> next, toks |-> toks, stop |-> toks = << >>]

Scan(next, toks, stop) == [next |-> next, toks |-> toks, stop |-> stop]

ScanStep(mt, i) ==
  LET char == mt[i]
      endBrace == IndexOf(mt, "}", i + 1)
      endLine == IndexOf(mt, "\n", i + 1)
      commentEnd == IF endLine = 0 THEN Len(mt) + 1 ELSE endLine
      nagEnd == DigitsEnd(mt, i + 1)
      result == ResultAt(mt, i)
      numEnd == MoveNumberEnd(mt, i)
      nag == SymbolicNagAt(mt, i)
      sanEnd == SanEnd(mt, i)
      comment(text) ==
        IF Len(text) > 0
        THEN << Token("COMMENT", filterComment(text)) >>
        ELSE << >>
  IN IF IsSpace(char) THEN Scan(i + 1, << >>, FALSE)
     ELSE IF char = "{" THEN
       IF endBrace = 0
       THEN Scan(i, << Token("COMMENT",
                             filterComment(Trim(Slice(mt, i + 1, Len(mt))))) >>,
                 TRUE)
       ELSE Scan(endBrace + 1, comment(Trim(Slice(mt, i + 1, endBrace - 1))),
                 FALSE)
     ELSE IF char = ";" THEN
       Scan(commentEnd + 1, comment(Trim(Slice(mt, i + 1, commentEnd - 1))),
            FALSE)
     ELSE IF char = "(" THEN
       Scan(i + 1, << Token("VARIATION_START", <<"(">>) >>, FALSE)
     ELSE IF char = ")" THEN
       Scan(i + 1, << Token("VARIATION_END", <<")">>) >>, FALSE)
     ELSE IF char = "$" /\ nagEnd > i + 1 THEN
       Scan(nagEnd, << Token("NAG", Slice(mt, i, nagEnd - 1)) >>, FALSE)
     ELSE IF result # << >> THEN
       Scan(i + Len(result), << Token("RESULT", result) >>, FALSE)
     ELSE IF numEnd # 0 THEN
       Scan(numEnd, << Token("MOVE_NUMBER",
                             Slice(mt, i, DigitsEnd(mt, i) - 1)) >>, FALSE)
     ELSE IF nag # << >> THEN
       Scan(i + Len(nag), << Token("NAG", nag) >>, FALSE)
     ELSE IF sanEnd # 0 THEN
       Scan(sanEnd, << Token("MOVE",
                             NormalizeCastling(Slice(mt, i, sanEnd - 1))) >>,
            FALSE)
     ELSE Scan(i + 1, << >>, FALSE)

RECURSIVE ScanFrom(_, _, _)
\* the while loop of tokenizePgn
ScanFrom(mt, i, tokens) ==
  IF i > Len(mt) THEN tokens
  ELSE LET st == ScanStep(mt, i)
       IN IF st.stop THEN tokens \o st.toks
          ELSE ScanFrom(mt, st.next, tokens \o st.toks)

RECURSIVE TagsOf(_, _)
\* the tags object built from the header lines: a later line with the
\* same key overwrites the value and keeps the key's first place
TagsOf(lines, tags) ==
  IF Len(lines) = 0 THEN tags
  ELSE LET l == lines[1]
       IN IF \E k \in 1..Len(tags) : tags[k].key = l.key
          THEN TagsOf(Tail(lines),
                      [k \in 1..Len(tags) |->
                         IF tags[k].key = l.key THEN l ELSE tags[k]])
          ELSE TagsOf(Tail(lines), Append(tags, l))

\* a PGN text: its header lines [Key "Value"] and the text after them
Pgn(header, movetext) == [header |-> header, movetext |-> movetext]

tokenizePgn(pgn) ==
  [tags |-> TagsOf(pgn.header, << >>),
   tokens |-> ScanFrom(Trim(pgn.movetext), 1, << >>)]

(* --------------------------- rules engine ------------------------------ *)
\* the initialFen prop of the component and the default of import/export
DefaultFen == [board |-> <<>>, turn |-> "w", full |-> 1]

\* the moves the engine knows (chess.js Move: san, from, to, color)
MoveTable ==
  { [san |-> E4, from |-> "e2", to |-> "e4", color |-> "w"],
    [san |-> D4, from |-> "d2", to |-> "d4", color |-> "w"],
    [san |-> E5, from |-> "e7", to |-> "e5", color |-> "b"],
    [san |-> C5, from |-> "c7", to |-> "c5", color |-> "b"] }

NoMove == [san |-> <<>>, from |-> "", to |-> "", color |-> ""]

\* game.moves({verbose: true})
LegalMoves(fen) ==
  { m \in MoveTable :
      /\ m.color = fen.turn
      /\ \A i \in 1..Len(fen.board) : fen.board[i] # m.san }

\* game.fen() after the move m was made on fen
FenAfter(fen, m) ==
  [board |-> Append(fen.board, m.san),
   turn  |-> IF fen.turn = "w" THEN "b" ELSE "w",
   full  |-> IF fen.turn = "b" THEN fen.full + 1 ELSE fen.full]

\* chess.move(san): the Move made, or NoMove when it throws
ChessMoveSan(fen, san) ==
  IF \E m \in LegalMoves(fen) : m.san = san
  THEN CHOOSE m \in LegalMoves(fen) : m.san = san
  ELSE NoMove

(* ---------------------------- move tree -------------------------------- *)
VARIABLES
  nodes,        \* the live MoveNode objects: id -> fields
  rootNodes,    \* useState rootNodes: sequence of ids
  currentNode,  \* useState currentNode: id or Null
  lastOp,       \* the handler that ran last, with what it was given
  pipe          \* a PGN text on its way through import, export, import

vars == <<nodes, rootNodes, currentNode, lastOp, pipe>>

\* createMoveNode
\* createMoveNode with its isMainLine parameter ignored (the default kept)
createMoveNodeMain(move, fen, parent, isMainLine) ==
  [move |-> move, fen |-> fen, parent |-> parent, children |-> << >>,
   isMainLine |-> TRUE, comment |-> << >>]

\* createMoveNode with no link to the parent
createMoveNodeOrphan(move, fen, parent, isMainLine) ==
  [move |-> move, fen |-> fen, parent |-> Null, children |-> << >>,
   isMainLine |-> isMainLine, comment |-> << >>]

createMoveNode(move, fen, parent, isMainLine) ==
  [move |-> move, fen |-> fen, parent |-> parent, children |-> <<>>,
   isMainLine |-> isMainLine, comment |-> <<>>]

Range(s) == { s[i] : i \in 1..Len(s) }

\* the identity of a newly created object: one no live object has
FreshId(used) ==
  CHOOSE id \in 1..(Cardinality(used) + 1) :
    /\ id \notin used
    /\ \A j \in 1..(id - 1) : j \in used

\* the first element removed, whichever was asked for
WithoutFirst(s, x) == IF Len(s) > 0 THEN Tail(s) ELSE s

\* Array.prototype.filter(n => n !== x)
Without(s, x) == SelectSeq(s, LAMBDA y : y # x)

\* Array.prototype.find(c => c.isMainLine) || s[0], on a non-empty list
MainOrFirst(ns, s) ==
  IF \E i \in 1..Len(s) : ns[s[i]].isMainLine
  THEN s[CHOOSE i \in 1..Len(s) :
            /\ ns[s[i]].isMainLine
            /\ \A j \in 1..(i - 1) : ~ns[s[j]].isMainLine]
  ELSE s[1]

RECURSIVE Subtree(_, _)
\* the node n and everything below it
Subtree(ns, n) ==
  {n} \cup UNION { Subtree(ns, c) : c \in Range(ns[n].children) }

\* the nodes the rendered tree shows
Reachable(ns, roots) == UNION { Subtree(ns, r) : r \in Range(roots) }

(* ----------------------------- AST builder ----------------------------- *)
\* the node of a MOVE token that takes no pending comment
AstMoveBare(san, comment, nags) ==
  [type |-> "MOVE", san |-> san, nags |-> nags, comment |-> << >>,
   children |-> << >>]

AstMove(san, comment, nags) ==
  [type |-> "MOVE", san |-> san, nags |-> nags, comment |-> comment,
   children |-> << >>]

AstVariation(children) == [type |-> "VARIATION", children |-> children]

\* the variables parseSequence shares with buildAst (i, pendingComment,
\* pendingNags, result) and the list it fills
ParseState(i, ns, pendingComment, pendingNags, result) ==
  [i |-> i, nodes |-> ns, pendingComment |-> pendingComment,
   pendingNags |-> pendingNags, result |-> result]

RECURSIVE parseSequence(_, _)
parseSequence(tokens, st) ==
  IF st.i > Len(tokens) THEN st
  ELSE
    LET token == tokens[st.i]
        n == Len(st.nodes)
        hasLast == n > 0 /\ st.nodes[n].type = "MOVE"
    IN
    CASE token.type = "VARIATION_END" -> st
      [] token.type = "COMMENT" ->
           parseSequence(tokens,
             IF hasLast
             THEN [st EXCEPT !.nodes[n].comment = token.value, !.i = @ + 1]
             ELSE [st EXCEPT !.pendingComment = token.value, !.i = @ + 1])
      [] token.type = "NAG" ->
           parseSequence(tokens,
             IF hasLast
             THEN [st EXCEPT !.nodes[n].nags = Append(@, token.value),
                             !.i = @ + 1]
             ELSE [st EXCEPT !.pendingNags = Append(@, token.value),
                             !.i = @ + 1])
      [] token.type = "MOVE_NUMBER" ->
           parseSequence(tokens, [st EXCEPT !.i = @ + 1])
      [] token.type = "RESULT" ->
           parseSequence(tokens,
             [st EXCEPT !.result = token.value, !.i = @ + 1])
      [] token.type = "MOVE" ->
           parseSequence(tokens,
             ParseState(st.i + 1,
                        Append(st.nodes,
                               AstMove(token.value, st.pendingComment,
                                       st.pendingNags)),
                        << >>, << >>, st.result))
      [] token.type = "VARIATION_START" ->
           LET sub == parseSequence(tokens,
                        [st EXCEPT !.i = @ + 1, !.nodes = << >>])
               attached ==
                 IF hasLast
                 THEN [st.nodes EXCEPT ![n].children =
                         Append(@, AstVariation(sub.nodes))]
                 ELSE st.nodes
               closed == /\ sub.i <= Len(tokens)
                         /\ tokens[sub.i].type = "VARIATION_END"
           IN parseSequence(tokens,
                ParseState(IF closed THEN sub.i + 1 ELSE sub.i, attached,
                           sub.pendingComment, sub.pendingNags, sub.result))
      [] OTHER -> parseSequence(tokens, [st EXCEPT !.i = @ + 1])

buildAst(tokens) ==
  LET st == parseSequence(tokens, ParseState(1, << >>, << >>, << >>, << >>))
  IN [ast |-> st.nodes, result |-> st.result]

(* ------------------------- move-tree builder --------------------------- *)
\* node.san.replace(/[+#]$/, "")
CleanSan(san) ==
  IF Len(san) > 0 /\ san[Len(san)] \in {"+", "#"}
  THEN SubSeq(san, 1, Len(san) - 1)
  ELSE san

\* the try/catch around chess.move in processSequence
TryMove(fen, san) ==
  IF ChessMoveSan(fen, san) # NoMove THEN ChessMoveSan(fen, san)
  ELSE ChessMoveSan(fen, CleanSan(san))

\* what astToMoveTree has built so far: the objects, the roots array, the
\* errors array, and a record of every Move of the AST it has come to
\* (the call of processSequence it was in, its place in that sequence,
\* and the node made of it, Null when it did not apply)
Built(ns, roots, errors, calls, log) ==
  [nodes |-> ns, roots |-> roots, errors |-> errors, calls |-> calls,
   log |-> log]

InvalidMove(san) ==
  <<"I", "n", "v", "a", "l", "i", "d", " ", "m", "o", "v", "e", ":", " ">>
    \o san \o <<" ", "a", "t", " ", "p", "o", "s", "i", "t", "i", "o", "n">>

\* what a failed move leaves of the remainder of its sequence to process:
\* the code goes on with the next element (continue)
AfterFailure(astNodes, k) == k + 1

RECURSIVE processSequence(_, _, _, _, _, _, _)
RECURSIVE processVariationsMain(_, _, _, _, _)
RECURSIVE processVariations(_, _, _, _, _)

\* the for loop of processSequence from element k on; call is the number
\* of this call of processSequence
processSequence(t, astNodes, k, call, currentParent, currentFen, isMainLine) ==
  IF k > Len(astNodes) THEN t
  ELSE
    LET node == astNodes[k]
        move == TryMove(currentFen, node.san)
    IN
    IF node.type = "MOVE" /\ Len(node.san) > 0
    THEN
      IF move = NoMove
      THEN processSequence(
             [t EXCEPT !.errors = Append(@, InvalidMove(node.san)),
                       !.log = Append(@, [call |-> call, idx |-> k,
                                          node |-> Null])],
             astNodes, AfterFailure(astNodes, k), call,
             currentParent, currentFen, isMainLine)
      ELSE
        LET newFen == FenAfter(currentFen, move)
            id == FreshId(DOMAIN t.nodes)
            moveNode ==
              [createMoveNode(move, newFen, currentParent, isMainLine)
                 EXCEPT !.comment = node.comment]
            ns == IF currentParent # Null
                  THEN [t.nodes EXCEPT ![currentParent].children =
                                          Append(@, id)]
                         @@ (id :> moveNode)
                  ELSE t.nodes @@ (id :> moveNode)
            t1 == [t EXCEPT !.nodes = ns,
                            !.roots = IF currentParent # Null THEN @
                                      ELSE Append(@, id),
                            !.log = Append(@, [call |-> call, idx |-> k,
                                               node |-> id])]
            t2 == processVariations(t1, node.children, 1,
                                    currentParent, currentFen)
        IN processSequence(t2, astNodes, k + 1, call, id, newFen, isMainLine)
    ELSE IF node.type = "VARIATION"
    THEN processSequence(
           processSequence([t EXCEPT !.calls = @ + 1], node.children, 1,
                           t.calls + 1, currentParent, currentFen, FALSE),
           astNodes, k + 1, call, currentParent, currentFen, isMainLine)
    ELSE processSequence(t, astNodes, k + 1, call,
                         currentParent, currentFen, isMainLine)

\* the loop over the variations, each processed as a main line
processVariationsMain(t, variations, j, currentParent, currentFen) ==
  IF j > Len(variations) THEN t
  ELSE processVariationsMain(
         IF variations[j].type = "VARIATION"
         THEN processSequence([t EXCEPT !.calls = @ + 1],
                              variations[j].children, 1, t.calls + 1,
                              currentParent, currentFen, TRUE)
         ELSE t,
         variations, j + 1, currentParent, currentFen)

\* the loop over the variations attached to a Move of the AST
processVariations(t, variations, j, currentParent, currentFen) ==
  IF j > Len(variations) THEN t
  ELSE processVariations(
         IF variations[j].type = "VARIATION"
         THEN processSequence([t EXCEPT !.calls = @ + 1],
                              variations[j].children, 1, t.calls + 1,
                              currentParent, currentFen, FALSE)
         ELSE t,
         variations, j + 1, currentParent, currentFen)

astToMoveTree(ast, startFen) ==
  processSequence(Built(<< >>, << >>, << >>, 1, << >>), ast, 1, 1,
                  Null, startFen, TRUE)

(* ------------------------------ import --------------------------------- *)
\* tags[key], the empty text when the key is absent
TagValue(tags, key) ==
  IF \E k \in 1..Len(tags) : tags[k].key = key
  THEN tags[CHOOSE k \in 1..Len(tags) : tags[k].key = key].value
  ELSE << >>

\* tags[key] = value
SetTag(tags, key, value) ==
  IF \E k \in 1..Len(tags) : tags[k].key = key
  THEN [k \in 1..Len(tags) |->
          IF tags[k].key = key THEN [key |-> key, value |-> value]
          ELSE tags[k]]
  ELSE Append(tags, [key |-> key, value |-> value])

\* the value of a FEN header that stands for the position after 1. e4
FenAfterE4Text == <<"e", "4", " ", "b", " ", "1">>

\* new Chess(fen) for the text of a FEN header
NoFen == [board |-> << >>, turn |-> "", full |-> 0]

\* new Chess(fen) for the text of a FEN header; NoFen when it throws
ParseFen(text) ==
  IF text = FenAfterE4Text
  THEN [board |-> <<E4>>, turn |-> "b", full |-> 1]
  ELSE NoFen

ImportResult(ns, roots, metadata, errors, warnings, log) ==
  [nodes |-> ns, rootNodes |-> roots, metadata |-> metadata,
   errors |-> errors, warnings |-> warnings, log |-> log]

PgnTextIsEmpty ==
  <<"P", "G", "N", " ", "t", "e", "x", "t", " ", "i", "s", " ",
    "e", "m", "p", "t", "y">>

NoValidMoves ==
  <<"N", "o", " ", "v", "a", "l", "i", "d", " ", "m", "o", "v", "e", "s",
    " ", "f", "o", "u", "n", "d", " ", "i", "n", " ", "P", "G", "N", ".",
    " ", "P", "l", "e", "a", "s", "e", " ", "c", "h", "e", "c", "k", " ",
    "t", "h", "e", " ", "f", "o", "r", "m", "a", "t", ".">>

FailedToParse ==
  <<"F", "a", "i", "l", "e", "d", " ", "t", "o", " ", "p", "a", "r", "s",
    "e", " ", "P", "G", "N", ":", " ", "I", "n", "v", "a", "l", "i", "d",
    " ", "F", "E", "N">>

\* a text that keeps the whole of what it was given
IsEmptyPgnUntrimmed(pgn) == Len(pgn.header) = 0 /\ Len(pgn.movetext) = 0

\* !pgn || pgn.trim().length === 0
IsEmptyPgn(pgn) == Len(pgn.header) = 0 /\ Len(Trim(pgn.movetext)) = 0

importFromPGN(pgn, initialFen) ==
  IF IsEmptyPgn(pgn)
  THEN ImportResult(<< >>, << >>, << >>, <<PgnTextIsEmpty>>, << >>, << >>)
  ELSE
    LET tk == tokenizePgn(pgn)
        built == buildAst(tk.tokens)
        headerFen == Trim(TagValue(tk.tags, "FEN"))
        startFen == IF Len(headerFen) > 0 THEN ParseFen(headerFen)
                    ELSE initialFen
        tree == astToMoveTree(built.ast, startFen)
        metadata == IF Len(built.result) > 0
                    THEN SetTag(tk.tags, "Result", built.result)
                    ELSE tk.tags
        errors ==
          IF /\ Len(tree.roots) = 0
             /\ \E k \in 1..Len(tk.tokens) : tk.tokens[k].type = "MOVE"
          THEN Append(tree.errors, NoValidMoves)
          ELSE tree.errors
    IN IF startFen = NoFen /\ Len(built.ast) > 0
       THEN ImportResult(<< >>, << >>, << >>, <<FailedToParse>>, << >>, << >>)
       ELSE ImportResult(tree.nodes, tree.roots, metadata, errors, << >>,
                         tree.log)

(* ------------------------------ export --------------------------------- *)
RECURSIVE ToText(_)
\* the decimal text of a number, as a template literal prints it
ToText(n) ==
  LET d == <<"0", "1", "2", "3", "4", "5", "6", "7", "8", "9">>
  IN IF n < 10 THEN << d[n + 1] >>
     ELSE Append(ToText(n \div 10), d[(n % 10) + 1])

\* getMoveInfo reading the position of the node itself
getMoveInfoOwn(ns, node, startFen) ==
  [moveNum |-> IF ns[node].fen.full = 0 THEN 1 ELSE ns[node].fen.full,
   isWhite |-> ns[node].fen.turn = "w"]

\* getMoveInfo
getMoveInfo(ns, node, startFen) ==
  LET parentFen == IF ns[node].parent # Null THEN ns[ns[node].parent].fen
                   ELSE startFen
  IN [moveNum |-> IF parentFen.full = 0 THEN 1 ELSE parentFen.full,
      isWhite |-> parentFen.turn = "w"]

\* formatMove
formatMove(ns, node, startFen, forceNumber) ==
  LET info == getMoveInfo(ns, node, startFen)
  IN (IF info.isWhite THEN ToText(info.moveNum) \o <<".", " ">>
      ELSE IF forceNumber
           THEN ToText(info.moveNum) \o <<".", ".", ".", " ">>
           ELSE << >>)
     \o ns[node].move.san

\* an element of the parts array, with the node it is the move of (Null
\* for a comment, a parenthesis and the result)
Part(text, node) == [text |-> text, node |-> node]

\* the comment printed as it is
CommentPartRaw(comment) ==
  IF Len(comment) = 0 THEN << >>
  ELSE << Part(<<"{", " ">> \o comment \o <<" ", "}">>, Null) >>

\* comment.replace(/}/g, "").replace(/\n/g, " ") between "{ " and " }";
\* no part when the node has no comment
CommentPart(comment) ==
  IF Len(comment) = 0 THEN << >>
  ELSE LET noBrace == SelectSeq(comment, LAMBDA c : c # "}")
           clean == [k \in 1..Len(noBrace) |->
                       IF noBrace[k] = "\n" THEN " " ELSE noBrace[k]]
       IN << Part(<<"{", " ">> \o clean \o <<" ", "}">>, Null) >>

\* the children, none filtered out
VariationsAll(ns, children) == children

\* children.filter(c => c !== mainChild)
Variations(ns, children) == Without(children, MainOrFirst(ns, children))

RECURSIVE exportLineRecursive(_, _, _, _)
RECURSIVE exportVariations(_, _, _, _)

\* the parts pushed for the variations vs, from the k-th on
exportVariations(ns, vs, k, startFen) ==
  IF k > Len(vs) THEN << >>
  ELSE << Part(<<"(">>, Null) >>
         \o exportLineRecursive(ns, vs[k], startFen, TRUE)
         \o << Part(<<")">>, Null) >>
         \o exportVariations(ns, vs, k + 1, startFen)

exportLineRecursive(ns, node, startFen, needsMoveNumber) ==
  << Part(formatMove(ns, node, startFen, needsMoveNumber), node) >>
    \o CommentPart(ns[node].comment)
    \o IF Len(ns[node].children) = 0 THEN << >>
       ELSE LET mainChild == MainOrFirst(ns, ns[node].children)
                variations == Variations(ns, ns[node].children)
            IN exportVariations(ns, variations, 1, startFen)
                 \o exportLineRecursive(ns, mainChild, startFen,
                                        Len(variations) > 0)

RECURSIVE exportFromNode(_, _, _, _)
exportFromNode(ns, node, startFen, forceNextMoveNumber) ==
  IF Len(ns[node].children) = 0 THEN << >>
  ELSE LET mainChild == MainOrFirst(ns, ns[node].children)
           variations == Variations(ns, ns[node].children)
           needsNumber == forceNextMoveNumber \/ Len(variations) > 0
       IN << Part(formatMove(ns, mainChild, startFen, needsNumber),
                  mainChild) >>
            \o CommentPart(ns[mainChild].comment)
            \o exportVariations(ns, variations, 1, startFen)
            \o exportFromNode(ns, mainChild, startFen, Len(variations) > 0)

RECURSIVE CollapseSpaces(_)
\* the three replace calls on the joined parts: they leave every run of
\* white space as one blank
CollapseSpaces(s) ==
  IF Len(s) = 0 THEN << >>
  ELSE IF IsSpace(s[1])
       THEN IF Len(s) > 1 /\ IsSpace(s[2]) THEN CollapseSpaces(Tail(s))
            ELSE <<" ">> \o CollapseSpaces(Tail(s))
       ELSE << s[1] >> \o CollapseSpaces(Tail(s))

\* value || fallback
OrElse(value, fallback) == IF Len(value) > 0 THEN value ELSE fallback

Roster == <<"Event", "Site", "Date", "Round", "White", "Black", "Result">>

RosterDefault(key) ==
  IF key = "Date"
  THEN <<"?", "?", "?", "?", ".", "?", "?", ".", "?", "?">>
  ELSE IF key = "Result" THEN <<"*">>
  ELSE <<"?">>

RECURSIVE SpreadTags(_, _)
\* { ...tags, ...metadata }
SpreadTags(tags, metadata) ==
  IF Len(metadata) = 0 THEN tags
  ELSE SpreadTags(SetTag(tags, metadata[1].key, metadata[1].value),
                  Tail(metadata))

\* the header lines of exportToPGN
exportHeader(metadata, resultValue) ==
  LET first == [k \in 1..7 |->
                  [key |-> Roster[k],
                   value |-> IF Roster[k] = "Result" THEN resultValue
                             ELSE OrElse(TagValue(metadata, Roster[k]),
                                         RosterDefault(Roster[k]))]]
      tags == SpreadTags(first, metadata)
      roster == [k \in 1..7 |->
                   [key |-> Roster[k],
                    value |-> OrElse(TagValue(tags, Roster[k]),
                                     RosterDefault(Roster[k]))]]
      others == SelectSeq(tags, LAMBDA t :
                            /\ t.key \notin Range(Roster)
                            /\ Len(t.value) > 0)
  IN roster \o others

\* metadata?.Result || "*"
ResultValue(metadata) == OrElse(TagValue(metadata, "Result"), <<"*">>)

\* the parts array of exportToPGN for a tree that has a root
exportParts(ns, roots, initialFen, metadata) ==
  LET startFen == initialFen
      mainRoot == MainOrFirst(ns, roots)
      altRoots == Without(roots, mainRoot)
  IN << Part(formatMove(ns, mainRoot, startFen, TRUE), mainRoot) >>
       \o CommentPart(ns[mainRoot].comment)
       \o exportVariations(ns, altRoots, 1, startFen)
       \o exportFromNode(ns, mainRoot, startFen, FALSE)
       \o << Part(ResultValue(metadata), Null) >>

exportToPGN(ns, roots, initialFen, metadata) ==
  IF Len(roots) = 0 THEN Pgn(<< >>, << >>)
  ELSE
    LET parts == exportParts(ns, roots, initialFen, metadata)
        texts == [k \in 1..Len(parts) |-> parts[k].text]
    IN Pgn(exportHeader(metadata, ResultValue(metadata)),
           Trim(CollapseSpaces(Join(texts, <<" ">>))))

(* ----------------------- pgnHandler.ts: exportToPGN --------------------- *)
\* node.parent?.children.find(c => c !== the child flagged isMainLine),
\* Null when the node is a root or no such child exists
FirstOtherChild(ns, node) ==
  IF ns[node].parent = Null THEN Null
  ELSE LET ch == ns[ns[node].parent].children
           mains == SelectSeq(ch, LAMBDA c : ns[c].isMainLine)
           others == SelectSeq(ch, LAMBDA c :
                                 Len(mains) = 0 \/ c # mains[1])
       IN IF Len(others) > 0 THEN others[1] ELSE Null

RECURSIVE processNode(_, _, _, _, _)
RECURSIVE processNodeVariations(_, _, _, _, _)

\* variations.forEach of processNode, from the k-th variation on
processNodeVariations(ns, vs, k, moveNumber, isWhite) ==
  IF k > Len(vs) THEN << >>
  ELSE <<" ", "(">> \o processNode(ns, vs[k], moveNumber, isWhite, TRUE)
         \o <<")">>
         \o processNodeVariations(ns, vs, k + 1, moveNumber, isWhite)

\* processNode of exportToPGN in pgnHandler.ts
processNode(ns, node, moveNumber, isWhite, inVariation) ==
  LET number ==
        IF inVariation /\ isWhite THEN ToText(moveNumber) \o <<".">>
        ELSE IF inVariation /\ ~isWhite /\ node = FirstOtherChild(ns, node)
             THEN ToText(moveNumber) \o <<".", ".", ".">>
        ELSE IF ~inVariation /\ isWhite THEN ToText(moveNumber) \o <<".">>
        ELSE << >>
      noBrace == SelectSeq(ns[node].comment, LAMBDA c : c # "}")
      clean == [k \in 1..Len(noBrace) |->
                  IF noBrace[k] = "\n" THEN " " ELSE noBrace[k]]
      comment == IF Len(ns[node].comment) = 0 THEN << >>
                 ELSE <<" ", "{">> \o clean \o <<"}">>
      children == ns[node].children
      nextMoveNumber == IF isWhite THEN moveNumber ELSE moveNumber + 1
  IN number \o <<" ">> \o ns[node].move.san \o comment
       \o IF Len(children) > 1
          THEN LET mainLineChild == MainOrFirst(ns, children)
               IN processNode(ns, mainLineChild, nextMoveNumber, ~isWhite,
                              inVariation)
                    \o processNodeVariations(ns,
                                             Without(children, mainLineChild),
                                             1, nextMoveNumber, ~isWhite)
          ELSE IF Len(children) = 1
               THEN processNode(ns, children[1], nextMoveNumber, ~isWhite,
                                inVariation)
               ELSE << >>

\* exportToPGN of pgnHandler.ts
exportToPGN_pgnHandler(ns, roots, initialFen, metadata) ==
  IF Len(roots) = 0 THEN Pgn(<< >>, << >>)
  ELSE
    LET mainRoot == MainOrFirst(ns, roots)
        startIsWhite == initialFen.turn = "w"
        pgn == processNode(ns, mainRoot, 1, startIsWhite, FALSE)
                 \o processNodeVariations(ns, Without(roots, mainRoot), 1, 1,
                                          startIsWhite)
        moveText == Trim(pgn)
    IN Pgn(exportHeader(metadata, ResultValue(metadata)),
           IF Len(moveText) > 0 THEN moveText ELSE <<"*">>)

RECURSIVE AncestorsOrSelf(_, _)
\* getPathToNode: the node and its parent chain, as a set
AncestorsOrSelf(ns, n) ==
  IF n = Null THEN {}
  ELSE {n} \cup AncestorsOrSelf(ns, ns[n].parent)

\* the objects still referenced from rootNodes or from currentNode; the
\* others are dropped when a handler replaces the array that held them
Live(ns, roots, cur) ==
  Reachable(ns, roots) \cup
    UNION { Subtree(ns, a) : a \in AncestorsOrSelf(ns, cur) }

Collect(ns, roots, cur) ==
  [n \in Live(ns, roots, cur) |-> ns[n]]

\* getCurrentGame
getCurrentGame ==
  IF currentNode = Null THEN DefaultFen ELSE nodes[currentNode].fen

(* ------------------------------ inputs --------------------------------- *)
Sans == {E4, D4, E5, C5}

Open == <<"(">>
Close == <<")">>

Words == Sans \cup {Open, Close}

\* white space between the words
Space == <<" ">>
Newline == <<"\n">>

\* the words of a text written without any rule
RawWords == Words \cup {Space, Newline}

\* movetexts of any words, parentheses placed anywhere
RawTexts ==
  UNION { { Join(ws, <<" ">>) : ws \in [1..n -> Words] } : n \in 0..MaxWords }

\* header sections: none, or a FEN header
Headers == { << >>, << [key |-> "FEN", value |-> FenAfterE4Text] >> }

\* header sections of the texts written without any rule: those, and one
\* with roster tags given, empty and missing, a result, and other tags
RawHeaders ==
  Headers \cup
    { << [key |-> "Event", value |-> <<"x">>],
         [key |-> "White", value |-> << >>],
         [key |-> "Result", value |-> <<"1", "-", "0">>],
         [key |-> "ECO", value |-> <<"B">>],
         [key |-> "Opening", value |-> << >>] >> }

\* how many of the words ws are w, and how many are moves
Count(ws, w) == Cardinality({ k \in 1..Len(ws) : ws[k] = w })
MoveCount(ws) == Cardinality({ k \in 1..Len(ws) : ws[k] \in Sans })

\* the variations open at the end of the words ws
OpenDepth(ws) == Count(ws, Open) - Count(ws, Close)

\* the word w may follow the words ws in a movetext in which every
\* variation follows a move of its line, holds a move, and is closed
WellFormedNext(ws, w) ==
  LET last == IF Len(ws) = 0 THEN << >> ELSE ws[Len(ws)]
  IN IF w \in Sans THEN MoveCount(ws) < MaxMoves
     ELSE /\ last \in Sans \cup {Close}
          /\ IF w = Open
             THEN OpenDepth(ws) < MaxDepth /\ MoveCount(ws) < MaxMoves
             ELSE OpenDepth(ws) > 0

(* ----------------------------- pipeline -------------------------------- *)
NoResult == ImportResult(<< >>, << >>, << >>, << >>, << >>, << >>)

NoText == Pgn(<< >>, << >>)

\* a text being written (its header, its words, whether any words are
\* allowed), the result of importing it, the text exported from that
\* result, and the result of importing the exported text
Pipe(stage, header, words, raw, first, text, second) ==
  [stage |-> stage, header |-> header, words |-> words, raw |-> raw,
   first |-> first, text |-> text, second |-> second]

Idle == Pipe("idle", << >>, << >>, FALSE, NoResult, NoText, NoResult)

\* the PGN text written so far
PgnOf(p) == Pgn(p.header, Join(p.words, <<" ">>))

\* the record of a handler that ran: currentNode before it (for makeMove,
\* goToNext and removeMove), the node it was given or came to, that
\* node's parent, the move, and a flag (the node was created; the removed
\* node was the main line; import failed)
Op(name, cur, node, parent, san, flag) ==
  [op |-> name, cur |-> cur, node |-> node, parent |-> parent,
   san |-> san, flag |-> flag]

Init ==
  /\ nodes = << >>
  /\ rootNodes = << >>
  /\ currentNode = Null
  /\ lastOp = Op("init", Null, Null, Null, << >>, FALSE)
  /\ pipe = Idle

(* ------------------------------ makeMove ------------------------------- *)
\* the sibling list a move played now is looked up in and added to
SiblingsHere ==
  IF currentNode = Null THEN rootNodes ELSE nodes[currentNode].children

\* rootNodes.find / currentNode.children.find in makeMove
SameMove(n, move) ==
  /\ nodes[n].move.san = move.san
  /\ nodes[n].move.from = move.from
  /\ nodes[n].move.to = move.to

\* the lookup looking at the first sibling only
ExistingMoveFirst(s, move) ==
  IF Len(s) > 0 /\ SameMove(s[1], move) THEN s[1] ELSE Null

ExistingMove(s, move) ==
  IF \E i \in 1..Len(s) : SameMove(s[i], move)
  THEN s[CHOOSE i \in 1..Len(s) :
            /\ SameMove(s[i], move)
            /\ \A j \in 1..(i - 1) : ~SameMove(s[j], move)]
  ELSE Null

\* every created node flagged as the main line
NewIsMainLineAlways(s) == TRUE

\* isMainLine of a node created by makeMove
NewIsMainLine(s) == Len(s) = 0

makeMove(move) ==
  /\ move \in LegalMoves(getCurrentGame)
  /\ LET existing == ExistingMove(SiblingsHere, move)
         newFen == FenAfter(getCurrentGame, move)
         newNode == createMoveNode(move, newFen, currentNode,
                                   NewIsMainLine(SiblingsHere))
     IN /\ UNCHANGED pipe
        /\ IF existing # Null
           THEN /\ currentNode' = existing
                /\ UNCHANGED <<nodes, rootNodes>>
                /\ lastOp' = Op("makeMove", currentNode, existing, currentNode,
                             move.san, FALSE)
           ELSE LET id == FreshId(DOMAIN nodes)
                IN /\ Cardinality(DOMAIN nodes) < MaxNodes
                   /\ IF currentNode = Null
                      THEN /\ rootNodes' = Append(rootNodes, id)
                           /\ nodes' = nodes @@ (id :> newNode)
                      ELSE /\ rootNodes' = rootNodes
                           /\ nodes' =
                                [nodes EXCEPT ![currentNode].children =
                                                 Append(@, id)]
                                  @@ (id :> newNode)
                   /\ currentNode' = id
                   /\ lastOp' = Op("makeMove", currentNode, id, currentNode,
                                move.san, TRUE)

(* ----------------------------- navigation ------------------------------ *)
goToStart ==
  /\ currentNode' = Null
  /\ lastOp' = Op("goToStart", Null, Null, Null, << >>, FALSE)
  /\ UNCHANGED <<nodes, rootNodes, pipe>>

goToPrevious ==
  /\ currentNode' =
       IF currentNode = Null THEN Null ELSE nodes[currentNode].parent
  /\ lastOp' = Op("goToPrevious", Null, Null, Null, << >>, FALSE)
  /\ UNCHANGED <<nodes, rootNodes, pipe>>

\* goToNext taking the last child
NextOfLast(ns, roots, cur) ==
  IF cur = Null /\ Len(roots) > 0 THEN roots[Len(roots)]
  ELSE IF cur # Null /\ Len(ns[cur].children) > 0
       THEN ns[cur].children[Len(ns[cur].children)]
       ELSE cur

\* the node goToNext moves to from cur, or cur when it does not move
NextOf(ns, roots, cur) ==
  IF cur = Null /\ Len(roots) > 0 THEN MainOrFirst(ns, roots)
  ELSE IF cur # Null /\ Len(ns[cur].children) > 0
       THEN MainOrFirst(ns, ns[cur].children)
       ELSE cur

goToNext ==
  /\ currentNode' = NextOf(nodes, rootNodes, currentNode)
  /\ lastOp' = Op("goToNext", currentNode, Null, Null, << >>, FALSE)
  /\ UNCHANGED <<nodes, rootNodes, pipe>>

RECURSIVE EndOfMainLine(_, _)
\* the while loop of goToEnd
EndOfMainLine(ns, n) ==
  IF Len(ns[n].children) > 0
  THEN EndOfMainLine(ns, MainOrFirst(ns, ns[n].children))
  ELSE n

goToEnd ==
  /\ currentNode' =
       IF Len(rootNodes) = 0 THEN currentNode
       ELSE EndOfMainLine(nodes, MainOrFirst(nodes, rootNodes))
  /\ lastOp' = Op("goToEnd", Null, Null, Null, << >>, FALSE)
  /\ UNCHANGED <<nodes, rootNodes, pipe>>

navigateToNode(n) ==
  /\ n \in Reachable(nodes, rootNodes)
  /\ currentNode' = n
  /\ lastOp' = Op("navigateToNode", Null, n, Null, << >>, FALSE)
  /\ UNCHANGED <<nodes, rootNodes, pipe>>

(* ----------------------------- removeMove ------------------------------ *)
\* isDescendant without the climb to the parents
isDescendantSelf(ns, node, ancestor) == node = ancestor

RECURSIVE isDescendant(_, _, _)
isDescendant(ns, node, ancestor) ==
  IF node = ancestor THEN TRUE
  ELSE IF ns[node].parent = Null THEN FALSE
  ELSE isDescendant(ns, ns[node].parent, ancestor)

\* a removal that promotes nothing
PromoteNone(ns, removed, remaining) == ns

\* the sibling list after the removal, with the first one promoted when
\* the removed node was the main line
Promote(ns, removed, remaining) ==
  IF ns[removed].isMainLine /\ Len(remaining) > 0
  THEN [ns EXCEPT ![remaining[1]].isMainLine = TRUE]
  ELSE ns

\* a removal that leaves currentNode where it was
RelocateNever(ns, cur, nodeToRemove) == cur

\* where removeMove leaves currentNode
Relocate(ns, cur, nodeToRemove) ==
  IF cur # Null /\ isDescendant(ns, cur, nodeToRemove)
  THEN ns[nodeToRemove].parent
  ELSE cur

removeMove(nodeToRemove) ==
  /\ nodeToRemove \in Reachable(nodes, rootNodes)
  /\ LET parent == nodes[nodeToRemove].parent
         cur == Relocate(nodes, currentNode, nodeToRemove)
     IN /\ IF parent # Null
           THEN LET newChildren == Without(nodes[parent].children,
                                           nodeToRemove)
                    ns == [nodes EXCEPT ![parent].children = newChildren]
                IN /\ rootNodes' = rootNodes
                   /\ nodes' = Collect(Promote(ns, nodeToRemove, newChildren),
                                       rootNodes, cur)
           ELSE LET newRootNodes == Without(rootNodes, nodeToRemove)
                IN /\ rootNodes' = newRootNodes
                   /\ nodes' = Collect(Promote(nodes, nodeToRemove,
                                               newRootNodes),
                                       newRootNodes, cur)
        /\ currentNode' = cur
        /\ lastOp' = Op("removeMove", currentNode, nodeToRemove, parent,
                        << >>, nodes[nodeToRemove].isMainLine)
        /\ UNCHANGED pipe

(* ---------------------------- Import PGN ------------------------------- *)
\* the files the user may pick in the Import PGN dialog
ImportFiles == { Pgn(h, t) : h \in Headers, t \in RawTexts }

\* what importFromPGN hands the onload handler for these files
ImportOutcomes ==
  { [nodes |-> r.nodes, rootNodes |-> r.rootNodes,
     failed |-> Len(r.errors) > 0] :
      r \in { importFromPGN(p, DefaultFen) : p \in ImportFiles } }

\* the node the onload handler makes current
ImportedCurrent(ns, importedNodes) == MainOrFirst(ns, importedNodes)

\* what alert() shows: its text, and the messages of the import that are
\* written into it
Alert(text, list) == [text |-> text, list |-> list]

\* the alerts the onload handler may show for the outcome r: when the
\* first root's move cannot be replayed from initialFen, game.move either
\* returns null or throws, and the catch shows its own alert
ImportAlerts(r) ==
  IF Len(r.rootNodes) > 0
  THEN { Alert("PGN imported successfully!", << >>) }
         \cup IF ChessMoveSan(DefaultFen,
                              r.nodes[r.rootNodes[1]].move.san) = NoMove
              THEN { Alert("Error importing PGN. Please check the format.",
                           << >>) }
              ELSE { }
  ELSE { Alert("Failed to import PGN. Please check the format.", << >>) }

\* the record of the onload handler: that of Op (the flag: the import
\* result it was handed has messages in its error list), and the alert it
\* showed
ImportOp(cur, r, alert) ==
  [op |-> "importPgn", cur |-> Null, node |-> cur, parent |-> Null,
   san |-> << >>, flag |-> r.failed, alert |-> alert]

\* reader.onload of the Import PGN button; the objects of the tree it
\* replaces are referenced no more, so the imported ones are all there are
importPgn(r) ==
  /\ IF Len(r.rootNodes) > 0
     THEN LET cur == ImportedCurrent(r.nodes, r.rootNodes)
          IN /\ rootNodes' = r.rootNodes
             /\ currentNode' = cur
             /\ nodes' = r.nodes
             /\ \E alert \in ImportAlerts(r) :
                  lastOp' = ImportOp(cur, r, alert)
     ELSE /\ UNCHANGED <<nodes, rootNodes, currentNode>>
          /\ \E alert \in ImportAlerts(r) :
               lastOp' = ImportOp(Null, r, alert)
  /\ UNCHANGED pipe

(* ------------------- import, export, import again ---------------------- *)
InitPgn ==
  /\ nodes = << >>
  /\ rootNodes = << >>
  /\ currentNode = Null
  /\ lastOp = Op("init", Null, Null, Null, << >>, FALSE)
  /\ pipe \in
       { Pipe("input", << >>, << >>, FALSE, NoResult, NoText, NoResult) }
         \cup { Pipe("input", h, << >>, TRUE, NoResult, NoText, NoResult) :
                  h \in RawHeaders }

\* one more word is written to the text
AddWord(w) ==
  /\ pipe.stage = "input"
  /\ IF pipe.raw THEN Len(pipe.words) < MaxWords
     ELSE w \in Words /\ WellFormedNext(pipe.words, w)
  /\ pipe' = [pipe EXCEPT !.words = Append(@, w)]
  /\ UNCHANGED <<nodes, rootNodes, currentNode, lastOp>>

DoImport ==
  /\ pipe.stage = "input"
  /\ pipe.raw \/ (Len(pipe.words) > 0 /\ OpenDepth(pipe.words) = 0)
  /\ pipe' = [pipe EXCEPT !.stage = "imported",
                          !.first = importFromPGN(PgnOf(pipe), DefaultFen)]
  /\ UNCHANGED <<nodes, rootNodes, currentNode, lastOp>>

DoExport ==
  /\ pipe.stage = "imported"
  /\ pipe' = [pipe EXCEPT !.stage = "exported",
                          !.text = exportToPGN(pipe.first.nodes,
                                               pipe.first.rootNodes,
                                               DefaultFen,
                                               pipe.first.metadata)]
  /\ UNCHANGED <<nodes, rootNodes, currentNode, lastOp>>

DoReimport ==
  /\ pipe.stage = "exported"
  /\ pipe' = [pipe EXCEPT !.stage = "reimported",
                          !.second = importFromPGN(pipe.text, DefaultFen)]
  /\ UNCHANGED <<nodes, rootNodes, currentNode, lastOp>>

NextPgn ==
  \/ \E w \in RawWords : AddWord(w)
  \/ DoImport
  \/ DoExport
  \/ DoReimport

SpecPgn == InitPgn /\ [][NextPgn]_vars

(* -------------------- comments and the Export PGN button --------------- *)
\* what the user may type into the comment box of a move
CommentTexts ==
  { <<"a", " ", "}", " ", "c", "5">>, <<" ">> }

\* onBlur of the comment box of the node n
editComment(n, text) ==
  /\ n \in Reachable(nodes, rootNodes)
  /\ nodes' = [nodes EXCEPT ![n].comment = Trim(text)]
  /\ lastOp' = Op("editComment", Null, Null, Null, << >>, FALSE)
  /\ UNCHANGED <<rootNodes, currentNode, pipe>>

\* onClick of the Export PGN button, the tree not being empty; the text
\* it writes is kept with the tree it was written from
exportPgn ==
  /\ pipe.stage = "idle"
  /\ Len(rootNodes) > 0
  /\ pipe' = Pipe("exported", << >>, << >>, FALSE,
                  ImportResult(nodes, rootNodes, << >>, << >>, << >>, << >>),
                  exportToPGN(nodes, rootNodes, DefaultFen, << >>),
                  NoResult)
  /\ lastOp' = Op("exportPgn", Null, Null, Null, << >>, FALSE)
  /\ UNCHANGED <<nodes, rootNodes, currentNode>>

\* the tree is built and commented, its text is written, and the text is
\* imported
NextSave ==
  \/ /\ pipe.stage = "idle"
     /\ \/ \E move \in MoveTable : makeMove(move)
        \/ goToStart
        \/ \E n \in DOMAIN nodes : navigateToNode(n)
        \/ \E n \in DOMAIN nodes : \E text \in CommentTexts :
             editComment(n, text)
  \/ exportPgn
  \/ DoReimport

SpecSave == Init /\ [][NextSave]_vars

(* --------------------------- specifications ---------------------------- *)
NextEdit ==
  \/ \E move \in MoveTable : makeMove(move)
  \/ goToStart
  \/ goToPrevious
  \/ goToNext
  \/ goToEnd
  \/ \E n \in DOMAIN nodes : navigateToNode(n)
  \/ \E n \in DOMAIN nodes : removeMove(n)

SpecEdit == Init /\ [][NextEdit]_vars

Next ==
  \/ NextEdit
  \/ \E r \in ImportOutcomes : importPgn(r)

Spec == Init /\ [][Next]_vars

(* ------------------------------ storage -------------------------------- *)
RECURSIVE serializeNode(_, _)
\* serializeNode: the id of a node is its identity in nodes
serializeNode(ns, node) ==
  [id |-> node,
   move |-> [san |-> ns[node].move.san, from |-> ns[node].move.from,
             to |-> ns[node].move.to, color |-> ns[node].move.color],
   fen |-> ns[node].fen,
   isMainLine |-> ns[node].isMainLine,
   comment |-> ns[node].comment,
   children |-> [k \in 1..Len(ns[node].children) |->
                   serializeNode(ns, ns[node].children[k])]]

serializeGameForStorage(ns, roots, initialFen) ==
  [rootNodes |-> [k \in 1..Len(roots) |-> serializeNode(ns, roots[k])],
   initialFen |-> initialFen]

\* the object deserializeNode creates, its parent dropped
StoredNodeNoParent(nodeData, parent) ==
  [id |-> nodeData.id, move |-> nodeData.move, fen |-> nodeData.fen,
   parent |-> Null, children |-> << >>,
   isMainLine |-> nodeData.isMainLine, comment |-> nodeData.comment]

\* the object deserializeNode creates, before its children are attached
StoredNode(nodeData, parent) ==
  [id |-> nodeData.id, move |-> nodeData.move, fen |-> nodeData.fen,
   parent |-> parent, children |-> << >>,
   isMainLine |-> nodeData.isMainLine, comment |-> nodeData.comment]

\* objects created so far (the k-th created is heap[k]) and the ones
\* that were asked for
Stored(heap, made) == [heap |-> heap, made |-> made]

RECURSIVE deserializeNode(_, _, _)
RECURSIVE deserializeNodes(_, _, _, _, _)

\* deserializeNode: a new object, then its children with it as parent
deserializeNode(nodeData, parent, heap) ==
  LET node == Len(heap) + 1
      r == deserializeNodes(nodeData.children, 1, node,
                            Append(heap, StoredNode(nodeData, parent)),
                            << >>)
  IN Stored([r.heap EXCEPT ![node].children = r.made], <<node>>)

\* .map(d => deserializeNode(d, parent)) from the k-th of datas on
deserializeNodes(datas, k, parent, heap, made) ==
  IF k > Len(datas) THEN Stored(heap, made)
  ELSE LET r == deserializeNode(datas[k], parent, heap)
       IN deserializeNodes(datas, k + 1, parent, r.heap, made \o r.made)

\* deserializeGameFromStorage, of data that has rootNodes
deserializeGameFromStorage(data) ==
  LET r == deserializeNodes(data.rootNodes, 1, Null, << >>, << >>)
  IN [heap |-> r.heap, rootNodes |-> r.made,
      initialFen |-> data.initialFen]

\* the chapter kept in storage and the tree loaded from it
StorePipe(stage, saved, tree, stored, loaded) ==
  [stage |-> stage, saved |-> saved, tree |-> tree, stored |-> stored,
   loaded |-> loaded]

\* saveCurrentChapter: the tree of the board is stored in the chapter;
\* the tree it was made from is kept next to it
saveCurrentChapter ==
  /\ pipe.stage = "idle"
  /\ pipe' = StorePipe("saved", rootNodes, nodes,
                       serializeGameForStorage(nodes, rootNodes, DefaultFen),
                       [heap |-> << >>, rootNodes |-> << >>,
                        initialFen |-> DefaultFen])
  /\ lastOp' = Op("saveCurrentChapter", Null, Null, Null, << >>, FALSE)
  /\ UNCHANGED <<nodes, rootNodes, currentNode>>

\* loadChapterData of the chapter in storage
loadChapterData ==
  /\ pipe.stage = "saved"
  /\ pipe' = [pipe EXCEPT !.stage = "loaded",
                          !.loaded = deserializeGameFromStorage(pipe.stored)]
  /\ lastOp' = Op("loadChapterData", Null, Null, Null, << >>, FALSE)
  /\ UNCHANGED <<nodes, rootNodes, currentNode>>

\* the tree is built and commented, stored, and loaded
NextStore ==
  \/ /\ pipe.stage = "idle"
     /\ \/ \E move \in MoveTable : makeMove(move)
        \/ goToStart
        \/ \E n \in DOMAIN nodes : navigateToNode(n)
        \/ \E n \in DOMAIN nodes : \E text \in CommentTexts :
             editComment(n, text)
  \/ saveCurrentChapter
  \/ loadChapterData

SpecStore == Init /\ [][NextStore]_vars

\* handleChapterSwitch to a chapter that holds the tree of the board:
\* the tree is stored, and the objects deserialized from the chapter are
\* the tree the board is handed, each known by the id it was stored
\* with; no node of it is current
handleChapterSwitch ==
  \E r \in { deserializeGameFromStorage(
                 serializeGameForStorage(nodes, rootNodes, DefaultFen)) } :
  LET idOf(k) == IF k = Null THEN Null ELSE r.heap[k].id
      at(id) == r.heap[CHOOSE k \in DOMAIN r.heap : r.heap[k].id = id]
  IN /\ nodes' = [id \in { idOf(k) : k \in DOMAIN r.heap } |->
                    [move |-> at(id).move, fen |-> at(id).fen,
                     parent |-> idOf(at(id).parent),
                     children |-> [j \in 1..Len(at(id).children) |->
                                     idOf(at(id).children[j])],
                     isMainLine |-> at(id).isMainLine,
                     comment |-> at(id).comment]]
     /\ rootNodes' = [j \in 1..Len(r.rootNodes) |-> idOf(r.rootNodes[j])]
     /\ currentNode' = Null
     /\ lastOp' = Op("handleChapterSwitch", Null, Null, Null, << >>, FALSE)
     /\ UNCHANGED pipe

\* the board, the Import PGN button and the chapters of a study
SpecAll == Init /\ [][Next \/ handleChapterSwitch]_vars

(* ------------------------- annotation glyphs --------------------------- *)
\* the longest list of glyphs written at once
MaxNags == 2

\* nagMap of nagToSymbol
nagMap ==
  [ code \in { <<"$", "1">>, <<"$", "2">>, <<"$", "3">>, <<"$", "4">>,
               <<"$", "5">>, <<"$", "6">> } |->
      CASE code = <<"$", "1">> -> <<"!">>
        [] code = <<"$", "2">> -> <<"?">>
        [] code = <<"$", "3">> -> <<"!", "!">>
        [] code = <<"$", "4">> -> <<"?", "?">>
        [] code = <<"$", "5">> -> <<"!", "?">>
        [] code = <<"$", "6">> -> <<"?", "!">> ]

\* nagToSymbol: nagMap[nag] || nag
nagToSymbol(nag) == IF nag \in DOMAIN nagMap THEN nagMap[nag] ELSE nag

\* the numeric glyphs of the table, and one that is not in it
NagCodes == DOMAIN nagMap \cup { <<"$", "7">> }

\* glyphs, their written form and the NAG tokens read back from it
NagPipe(stage, codes, text, tokens) ==
  [stage |-> stage, codes |-> codes, text |-> text, tokens |-> tokens]

InitNag ==
  /\ nodes = << >>
  /\ rootNodes = << >>
  /\ currentNode = Null
  /\ lastOp = Op("init", Null, Null, Null, << >>, FALSE)
  /\ \E n \in 1..MaxNags : \E codes \in [1..n -> NagCodes] :
       pipe = NagPipe("glyphs", codes, << >>, << >>)

\* every glyph written with nagToSymbol, a space between two glyphs
writeNags ==
  /\ pipe.stage = "glyphs"
  /\ pipe' = [pipe EXCEPT
                !.stage = "written",
                !.text = Join([k \in 1..Len(pipe.codes) |->
                                 nagToSymbol(pipe.codes[k])], <<" ">>)]
  /\ UNCHANGED <<nodes, rootNodes, currentNode, lastOp>>

\* the written glyphs read by tokenizePgn
readNags ==
  /\ pipe.stage = "written"
  /\ pipe' = [pipe EXCEPT
                !.stage = "read",
                !.tokens = tokenizePgn(Pgn(<< >>, pipe.text)).tokens]
  /\ UNCHANGED <<nodes, rootNodes, currentNode, lastOp>>

NextNag == writeNags \/ readNags

SpecNag == InitNag /\ [][NextNag]_vars

(* --------------------------- annotated texts --------------------------- *)
\* the longest annotated text, in words
MaxAnnot == 4

\* the words of an annotated text: moves, parentheses, a comment, a
\* glyph, a result, a character no rule of the tokenizer matches, and a
\* brace that is never closed
AnnotWords ==
  { E4, E5, Open, Close, <<"{", "a", "}">>, <<"!">>, <<"*">>, <<"@">>,
    <<"{">> }

\* an annotated text being written; the tokens and the AST importFromPGN
\* makes of it and its result; the text exported from the result
AnnotPipe(stage, words, tokens, ast, first, text) ==
  [stage |-> stage, words |-> words, tokens |-> tokens, ast |-> ast,
   first |-> first, text |-> text]

InitAnnot ==
  /\ nodes = << >>
  /\ rootNodes = << >>
  /\ currentNode = Null
  /\ lastOp = Op("init", Null, Null, Null, << >>, FALSE)
  /\ pipe = AnnotPipe("input", << >>, << >>, << >>, NoResult, NoText)

addAnnot(w) ==
  /\ pipe.stage = "input"
  /\ Len(pipe.words) < MaxAnnot
  /\ pipe' = [pipe EXCEPT !.words = Append(@, w)]
  /\ UNCHANGED <<nodes, rootNodes, currentNode, lastOp>>

\* importFromPGN of the text written, its tokens and AST kept
importAnnot ==
  /\ pipe.stage = "input"
  /\ LET pgn == Pgn(<< >>, Join(pipe.words, <<" ">>))
         tokens == IF IsEmptyPgn(pgn) THEN << >>
                   ELSE tokenizePgn(pgn).tokens
     IN pipe' = [pipe EXCEPT !.stage = "imported",
                             !.tokens = tokens,
                             !.ast = buildAst(tokens).ast,
                             !.first = importFromPGN(pgn, DefaultFen)]
  /\ UNCHANGED <<nodes, rootNodes, currentNode, lastOp>>

\* exportToPGN of the imported tree, when it has a root
exportAnnot ==
  /\ pipe.stage = "imported"
  /\ Len(pipe.first.rootNodes) > 0
  /\ pipe' = [pipe EXCEPT !.stage = "exported",
                          !.text = exportToPGN(pipe.first.nodes,
                                               pipe.first.rootNodes,
                                               DefaultFen,
                                               pipe.first.metadata)]
  /\ UNCHANGED <<nodes, rootNodes, currentNode, lastOp>>

NextAnnot ==
  \/ \E w \in AnnotWords : addAnnot(w)
  \/ importAnnot
  \/ exportAnnot

SpecAnnot == InitAnnot /\ [][NextAnnot]_vars

(* --------------------------- the scanning loop ------------------------- *)
\* the longest text scanned step by step, in words
MaxScan == 2

\* no text yet
InitScan ==
  /\ nodes = << >>
  /\ rootNodes = << >>
  /\ currentNode = Null
  /\ lastOp = Op("init", Null, Null, Null, << >>, FALSE)
  /\ pipe = [stage |-> "input", words |-> << >>, movetext |-> << >>,
             i |-> 1, tokens |-> << >>]

\* one more word of the text; movetext is the text trimmed
writeWord(w) ==
  /\ pipe.stage = "input"
  /\ Len(pipe.words) < MaxScan
  /\ pipe' = [pipe EXCEPT !.words = Append(@, w),
                          !.movetext = Trim(Join(Append(pipe.words, w),
                                                 <<" ">>))]
  /\ UNCHANGED <<nodes, rootNodes, currentNode, lastOp>>

\* the test of the while loop and, when it holds, one turn of the loop:
\* continue with the cursor moved, or break
scanStep ==
  /\ pipe.stage \in {"input", "scanning"}
  /\ IF pipe.i > Len(pipe.movetext)
     THEN pipe' = [pipe EXCEPT !.stage = "scanned"]
     ELSE LET st == ScanStep(pipe.movetext, pipe.i)
          IN pipe' = [pipe EXCEPT
                        !.stage = IF st.stop THEN "scanned" ELSE "scanning",
                        !.i = st.next,
                        !.tokens = @ \o st.toks]
  /\ UNCHANGED <<nodes, rootNodes, currentNode, lastOp>>

\* the loop, once entered, runs on by itself until it is left
SpecScan ==
  /\ InitScan
  /\ [][(\E w \in AnnotWords : writeWord(w)) \/ scanStep]_vars
  /\ WF_vars(pipe.stage = "scanning" /\ scanStep)

(* ------------------------------- claims -------------------------------- *)
\* the sibling lists of a tree: the roots, and the children of every node
SiblingLists(ns, roots) ==
  {roots} \cup { ns[n].children : n \in Reachable(ns, roots) }

\* how many nodes of the sibling list s are flagged isMainLine
MainCount(ns, s) == Cardinality({ i \in 1..Len(s) : ns[s[i]].isMainLine })

RECURSIVE PathTo(_, _)
\* the SANs from a root down to the node n
PathTo(ns, n) ==
  IF ns[n].parent = Null THEN <<ns[n].move.san>>
  ELSE Append(PathTo(ns, ns[n].parent), ns[n].move.san)

\* the lines of an import result: the SAN path of every node
Lines(r) == { PathTo(r.nodes, n) : n \in Reachable(r.nodes, r.rootNodes) }

RECURSIVE MainPath(_, _)
\* the SANs of the main line from the sibling list s on
MainPath(ns, s) ==
  IF Len(s) = 0 THEN << >>
  ELSE LET n == MainOrFirst(ns, s)
       IN <<ns[n].move.san>> \o MainPath(ns, ns[n].children)

\* C1: a well-formed text that imports without error, exported and
\* imported again, yields the same lines, nested variations included, the
\* same main line, and again no error
C1_RoundTrip ==
  (pipe.stage = "reimported" /\ ~pipe.raw /\ pipe.first.errors = << >>)
    => /\ pipe.second.errors = << >>
       /\ Lines(pipe.second) = Lines(pipe.first)
       /\ MainPath(pipe.second.nodes, pipe.second.rootNodes)
            = MainPath(pipe.first.nodes, pipe.first.rootNodes)

\* C2: among the root nodes, and among the children of any node, at most
\* one node is flagged isMainLine, whatever imports, moves and removals
\* have run
C2_MainLineUnique ==
  \A s \in SiblingLists(nodes, rootNodes) : MainCount(nodes, s) <= 1

\* a removal has just run and some node has a main-line child beside a
\* variation
C2_Witness ==
  /\ lastOp.op = "removeMove"
  /\ \E s \in SiblingLists(nodes, rootNodes) :
       Len(s) > 1 /\ MainCount(nodes, s) = 1

\* C3: currentNode is null or a node reachable from rootNodes
C3_CurrentNodeAttached ==
  currentNode = Null \/ currentNode \in Reachable(nodes, rootNodes)

\* the current node has just been removed and its parent is current
C3_Witness ==
  /\ lastOp.op = "removeMove"
  /\ lastOp.cur = lastOp.node
  /\ lastOp.parent # Null
  /\ currentNode = lastOp.parent

\* C4: the fen of every node is the position the engine gives for its san
\* in its parent's fen, or in the game's initial position for a root
C4_PositionInvariant ==
  \A n \in Reachable(nodes, rootNodes) :
    LET before == IF nodes[n].parent = Null THEN DefaultFen
                  ELSE nodes[nodes[n].parent].fen
        m == ChessMoveSan(before, nodes[n].move.san)
    IN m # NoMove /\ nodes[n].fen = FenAfter(before, m)

\* the sibling list the last removal took its node from
RemovedFrom ==
  IF lastOp.parent = Null THEN rootNodes ELSE nodes[lastOp.parent].children

\* C5: after the removal of a main-line node the first remaining sibling
\* is flagged isMainLine and no other one is; no sibling is flagged when
\* none remains
C5_DeletionInvariant ==
  (lastOp.op = "removeMove" /\ lastOp.flag)
    => /\ Len(RemovedFrom) > 0 => nodes[RemovedFrom[1]].isMainLine
       /\ MainCount(nodes, RemovedFrom) = IF Len(RemovedFrom) > 0 THEN 1 ELSE 0

\* a main-line node has just been removed and a sibling of it remains
C5_Witness ==
  /\ lastOp.op = "removeMove"
  /\ lastOp.flag
  /\ Len(RemovedFrom) > 0

\* C6: a removal moves currentNode to the parent of the removed node when
\* currentNode was in the removed subtree, and leaves it alone otherwise
C6_RemoveRelocates ==
  [][lastOp'.op = "removeMove" =>
       LET n == lastOp'.node
       IN IF currentNode # Null /\ currentNode \in Subtree(nodes, n)
          THEN currentNode' = nodes[n].parent
          ELSE currentNode' = currentNode]_vars

\* a node above the current one has just been removed, and the parent of
\* the removed node is current
C6_Witness ==
  /\ lastOp.op = "removeMove"
  /\ lastOp.cur # Null
  /\ lastOp.cur # lastOp.node
  /\ lastOp.cur \notin DOMAIN nodes
  /\ lastOp.parent # Null
  /\ currentNode = lastOp.parent

\* no two nodes of one sibling list carry the same SAN
NoDuplicateSiblings ==
  \A s \in SiblingLists(nodes, rootNodes) :
    \A i, j \in 1..Len(s) :
      nodes[s[i]].move.san = nodes[s[j]].move.san => i = j

\* a move played where a sibling with its SAN exists creates nothing and
\* makes that sibling current
InsertExisting ==
  (lastOp'.op = "makeMove"
     /\ \E i \in 1..Len(SiblingsHere) :
          nodes[SiblingsHere[i]].move.san = lastOp'.san)
    => /\ ~lastOp'.flag
       /\ nodes' = nodes
       /\ rootNodes' = rootNodes
       /\ currentNode' \in Range(SiblingsHere)
       /\ nodes[currentNode'].move.san = lastOp'.san

\* C7: playing a move is idempotent, and from the empty tree no sequence
\* of moves, navigations and removals yields siblings with the same SAN
C7_InsertIdempotent ==
  [][InsertExisting]_vars /\ []NoDuplicateSiblings

\* a move that a sibling already carries has just been played again, next
\* to another sibling
C7_Witness ==
  /\ lastOp.op = "makeMove"
  /\ ~lastOp.flag
  /\ currentNode = lastOp.node
  /\ nodes[currentNode].move.san = lastOp.san
  /\ \E s \in SiblingLists(nodes, rootNodes) :
       Len(s) > 1 /\ s[Len(s)] = currentNode

\* C8: a created node is flagged isMainLine exactly when its parent had no
\* child before (the tree no root, for a root), is appended last, and is
\* the current node
C8_NewNodePlacement ==
  [][(lastOp'.op = "makeMove" /\ lastOp'.flag) =>
       LET id == lastOp'.node
           after == IF currentNode = Null THEN rootNodes'
                    ELSE nodes'[currentNode].children
       IN /\ id \notin DOMAIN nodes
          /\ nodes'[id].isMainLine <=> (Len(SiblingsHere) = 0)
          /\ after = Append(SiblingsHere, id)
          /\ nodes'[id].parent = currentNode
          /\ currentNode' = id]_vars

\* a node has just been created beside an older sibling, as a variation
C8_Witness ==
  /\ lastOp.op = "makeMove"
  /\ lastOp.flag
  /\ currentNode = lastOp.node
  /\ ~nodes[currentNode].isMainLine
  /\ lastOp.parent # Null
  /\ Len(nodes[lastOp.parent].children) > 1

\* C9 as the specification states it: goToNext from a node with more than
\* one child does not move currentNode by itself
C9_NoSilentMove ==
  [][(lastOp'.op = "goToNext" /\ currentNode # Null
        /\ Len(nodes[currentNode].children) > 1)
       => currentNode' = currentNode]_vars

\* C9: goToNext from a node with more than one child moves currentNode to
\* the child flagged isMainLine, to the first child when none is flagged,
\* and changes nothing else
C9_NextTakesMainLine ==
  [][(lastOp'.op = "goToNext" /\ currentNode # Null
        /\ Len(nodes[currentNode].children) > 1)
       => LET s == nodes[currentNode].children
          IN /\ currentNode' \in Range(s)
             /\ IF MainCount(nodes, s) > 0
                THEN nodes[currentNode'].isMainLine
                ELSE currentNode' = s[1]
             /\ UNCHANGED <<nodes, rootNodes>>]_vars

\* goToNext has just left a node with more than one child for one of them
C9_Witness ==
  /\ lastOp.op = "goToNext"
  /\ lastOp.cur # Null
  /\ lastOp.cur \in DOMAIN nodes
  /\ Len(nodes[lastOp.cur].children) > 1
  /\ currentNode \in Range(nodes[lastOp.cur].children)

\* the moves of the log of an import that did not apply
FailedMoves(log) == { i \in 1..Len(log) : log[i].node = Null }

\* C10: a move that the engine rejects records one error, and no later
\* move of the sequence it stands in is processed
C10_FailedMoveAbandons ==
  pipe.stage = "imported" =>
    LET log == pipe.first.log
    IN /\ Cardinality(FailedMoves(log))
            = Cardinality({ e \in 1..Len(pipe.first.errors) :
                              pipe.first.errors[e] \notin
                                {NoValidMoves, FailedToParse,
                                 PgnTextIsEmpty} })
       /\ \A i \in FailedMoves(log) :
            \A j \in 1..Len(log) : j > i => log[j].call # log[i].call

\* the text has no header and nothing but white space
BlankText(p) ==
  /\ p.header = << >>
  /\ \A k \in 1..Len(PgnOf(p).movetext) : IsSpace(PgnOf(p).movetext[k])

\* C11: the import of an empty or white-space-only text returns no root,
\* the one error "PGN text is empty", no metadata and no warning
C11_EmptyInput ==
  (pipe.stage = "imported" /\ BlankText(pipe))
    => /\ pipe.first.rootNodes = << >>
       /\ pipe.first.errors = <<PgnTextIsEmpty>>
       /\ pipe.first.metadata = << >>
       /\ pipe.first.warnings = << >>

\* a text of white space only has been imported
C11_Witness ==
  /\ pipe.stage = "imported"
  /\ Len(pipe.words) > 1
  /\ BlankText(pipe)
  /\ pipe.first.errors = <<PgnTextIsEmpty>>

RECURSIVE Back(_, _, _)
\* from the word at place i backwards, over whole variations (open counts
\* the parentheses to close again): the place of the move written before
\* in the same sequence, of the parenthesis that opens the sequence, or 0
Back(ws, i, open) ==
  IF i = 0 THEN 0
  ELSE IF ws[i] = Close THEN Back(ws, i - 1, open + 1)
  ELSE IF ws[i] = Open
       THEN IF open = 0 THEN i ELSE Back(ws, i - 1, open - 1)
  ELSE IF open = 0 THEN i ELSE Back(ws, i - 1, open)

RECURSIVE WrittenParent(_, _)
\* the place of the move that the move written at place p follows: the
\* move before it in its sequence, and for the first move of a variation
\* written after the move M, the move that M follows; 0 when there is none
WrittenParent(ws, p) ==
  LET q == Back(ws, p - 1, 0)
  IN IF q = 0 THEN 0
     ELSE IF ws[q] = Open THEN WrittenParent(ws, Back(ws, q - 1, 0))
     ELSE q

\* the node made of the move written at place p: the moves are processed
\* in the order in which they are written
NodeOfWord(r, ws, p) == r.log[MoveCount(SubSeq(ws, 1, p))].node

\* C12: in a text imported without error, the first move of a variation
\* written after the move M gets the parent of M (none when M is a root)
\* and the position before M, every move of a variation is flagged a
\* variation, and the move written after M in its line is a child of M
C12_VariationAnchoring ==
  (pipe.stage = "imported" /\ ~pipe.raw /\ pipe.first.errors = << >>)
    => \A p \in 1..Len(pipe.words) :
         pipe.words[p] \in Sans =>
           LET r == pipe.first
               ws == pipe.words
               n == NodeOfWord(r, ws, p)
               q == WrittenParent(ws, p)
               parent == IF q = 0 THEN Null ELSE NodeOfWord(r, ws, q)
               siblings == IF q = 0 THEN r.rootNodes
                           ELSE r.nodes[parent].children
               before == IF q = 0 THEN DefaultFen ELSE r.nodes[parent].fen
           IN /\ r.nodes[n].move.san = ws[p]
              /\ r.nodes[n].parent = parent
              /\ n \in Range(siblings)
              /\ r.nodes[n].isMainLine
                   <=> (OpenDepth(SubSeq(ws, 1, p)) = 0)
              /\ r.nodes[n].fen
                   = FenAfter(before, ChessMoveSan(before, ws[p]))

\* a text whose line goes on after a variation has been imported
C12_Witness ==
  /\ pipe.stage = "imported"
  /\ ~pipe.raw
  /\ pipe.first.errors = << >>
  /\ \E p \in 2..(Len(pipe.words) - 1) :
       /\ pipe.words[p] = Close
       /\ pipe.words[p + 1] \in Sans
       /\ WrittenParent(pipe.words, p + 1) # 0

RECURSIVE SplitWords(_, _, _)
\* the words of the text s from place i on, cur being the word begun
SplitWords(s, i, cur) ==
  LET done == IF cur = << >> THEN << >> ELSE <<cur>>
  IN IF i > Len(s) THEN done
     ELSE IF s[i] = " " THEN done \o SplitWords(s, i + 1, << >>)
     ELSE SplitWords(s, i + 1, Append(cur, s[i]))

\* the words of an exported movetext
TextWords(text) == SplitWords(text.movetext, 1, << >>)

\* a number followed by one dot, and a number followed by three dots
IsWhiteNumber(w) ==
  /\ Len(w) > 1
  /\ w[Len(w)] = "."
  /\ \A k \in 1..(Len(w) - 1) : IsDigit(w[k])

IsBlackNumber(w) ==
  /\ Len(w) > 3
  /\ \A k \in (Len(w) - 2)..Len(w) : w[k] = "."
  /\ \A k \in 1..(Len(w) - 3) : IsDigit(w[k])

\* the SANs of the moves of White and of Black
WhiteSans == { m.san : m \in { x \in MoveTable : x.color = "w" } }
BlackSans == { m.san : m \in { x \in MoveTable : x.color = "b" } }

\* C13: in the exported movetext every move of White follows its number
\* "N.", and a move of Black follows a number "N..." only as the first
\* move of the text or of a variation, or right after a closing parenthesis
C13_NumberPrefixes ==
  pipe.stage = "exported" =>
    LET ws == TextWords(pipe.text)
    IN \A k \in 1..Len(ws) :
         /\ ws[k] \in WhiteSans => (k > 1 /\ IsWhiteNumber(ws[k - 1]))
         /\ (ws[k] \in BlackSans /\ k > 1 /\ IsBlackNumber(ws[k - 1]))
              => (k = 2 \/ ws[k - 2] \in {Open, Close})

\* the parts exportToPGN joined into the exported text
PrintedParts ==
  IF Len(pipe.first.rootNodes) = 0 THEN << >>
  ELSE exportParts(pipe.first.nodes, pipe.first.rootNodes, DefaultFen,
                   pipe.first.metadata)

\* how many variations are open at the part k
PartDepth(parts, k) ==
  Cardinality({ j \in 1..k : parts[j].text = Open })
    - Cardinality({ j \in 1..k : parts[j].text = Close })

\* C14: every move is printed with the full-move counter of the position
\* of its parent (of the initial position, for a root), as a move of White
\* exactly when White is to move in that position
C14_NumberFromParent ==
  pipe.stage = "exported" =>
    \A k \in 1..Len(PrintedParts) :
      LET part == PrintedParts[k]
          ns == pipe.first.nodes
          n == part.node
          before == IF ns[n].parent = Null THEN DefaultFen
                    ELSE ns[ns[n].parent].fen
          number == ToText(before.full)
      IN n # Null =>
           IF before.turn = "w"
           THEN part.text = number \o <<".", " ">> \o ns[n].move.san
           ELSE part.text \in
                  { number \o <<".", ".", ".", " ">> \o ns[n].move.san,
                    ns[n].move.san }

\* a move that is not a root has been printed inside a variation of a
\* variation, with a number
C14_Witness ==
  /\ pipe.stage = "exported"
  /\ \E k \in 1..Len(PrintedParts) :
       LET n == PrintedParts[k].node
       IN /\ n # Null
          /\ pipe.first.nodes[n].parent # Null
          /\ PartDepth(PrintedParts, k) = 2
          /\ IsDigit(PrintedParts[k].text[1])

\* the tree ns with every comment taken away
Uncommented(ns) == [n \in DOMAIN ns |-> [ns[n] EXCEPT !.comment = << >>]]

\* what importing the exported text of the tree of r, comments taken
\* away, gives
PlainReimport(r) ==
  importFromPGN(exportToPGN(Uncommented(r.nodes), r.rootNodes, DefaultFen,
                            r.metadata),
                DefaultFen)

\* the parts that print the comments of the exported tree
CommentParts ==
  { k \in 1..Len(PrintedParts) :
      PrintedParts[k].node = Null /\ PrintedParts[k].text[1] = "{" }

\* C15: no comment is printed with a "}" between its braces, and the
\* exported text imports to the moves, lines and errors that the text of
\* the same tree without comments imports to
C15_CommentBraces ==
  /\ pipe.stage = "exported" =>
       \A k \in CommentParts :
         LET text == PrintedParts[k].text
         IN /\ text[Len(text)] = "}"
            /\ \A j \in 2..(Len(text) - 1) : text[j] # "}"
  /\ pipe.stage = "reimported" =>
       /\ Lines(pipe.second) = Lines(PlainReimport(pipe.first))
       /\ MainPath(pipe.second.nodes, pipe.second.rootNodes)
            = MainPath(PlainReimport(pipe.first).nodes,
                       PlainReimport(pipe.first).rootNodes)
       /\ pipe.second.errors = PlainReimport(pipe.first).errors

\* a tree of three moves, the first one with a comment that holds a "}"
\* and a move, has been exported and imported
C15_Witness ==
  /\ pipe.stage = "reimported"
  /\ Cardinality(Lines(pipe.second)) = MaxNodes
  /\ \E n \in DOMAIN pipe.first.nodes :
       /\ pipe.first.nodes[n].comment = <<"a", " ", "}", " ", "c", "5">>
       /\ pipe.first.nodes[n].children # << >>

\* the last word of a movetext
LastWord(text) == TextWords(text)[Len(TextWords(text))]

\* the exported text has the seven roster tags first, in order, each with
\* the value of the metadata or its default, then the other tags of the
\* metadata that have a value, and its movetext ends with the value of
\* its Result tag
RosterFirst(text, metadata) ==
  LET h == text.header
      given(key) == IF \E k \in 1..Len(metadata) : metadata[k].key = key
                    THEN metadata[CHOOSE k \in 1..Len(metadata) :
                                    metadata[k].key = key].value
                    ELSE << >>
      default(key) ==
        IF key = "Date"
        THEN <<"?", "?", "?", "?", ".", "?", "?", ".", "?", "?">>
        ELSE IF key = "Result" THEN <<"*">> ELSE <<"?">>
      roster == <<"Event", "Site", "Date", "Round", "White", "Black",
                  "Result">>
  IN /\ Len(h) >= 7
     /\ \A k \in 1..7 :
          /\ h[k].key = roster[k]
          /\ h[k].value = IF given(roster[k]) # << >> THEN given(roster[k])
                          ELSE default(roster[k])
     /\ SubSeq(h, 8, Len(h))
          = SelectSeq(metadata, LAMBDA t :
                        t.key \notin Range(roster) /\ t.value # << >>)
     /\ TextWords(text) # << >>
     /\ LastWord(text) = h[7].value

\* C16 for exportToPGN of pgnUtils.ts alone
RosterFirstUtils ==
  (pipe.stage = "exported" /\ pipe.first.rootNodes # << >>)
    => RosterFirst(pipe.text, pipe.first.metadata)

\* C16: for a tree that has a root, the exported text has the seven tags
\* first with their defaults, then the other tags that have a value, and
\* a movetext that ends with the value of the Result tag; this for
\* exportToPGN of pgnUtils.ts and for exportToPGN of pgnHandler.ts
C16_HeaderRoster ==
  (pipe.stage = "exported" /\ pipe.first.rootNodes # << >>)
    => /\ RosterFirst(pipe.text, pipe.first.metadata)
       /\ RosterFirst(exportToPGN_pgnHandler(pipe.first.nodes,
                                             pipe.first.rootNodes,
                                             DefaultFen,
                                             pipe.first.metadata),
                      pipe.first.metadata)

\* C17: a glyph of the table, written as its symbol and read back, is the
\* numeric glyph again: each NAG token read from the written glyphs has
\* the code that was written, when that code is one of $1 .. $6
C17_NagRoundTrip ==
  pipe.stage = "read" =>
    /\ Len(pipe.tokens) = Len(pipe.codes)
    /\ \A k \in 1..Len(pipe.codes) :
         pipe.codes[k] \in DOMAIN nagMap =>
           /\ pipe.tokens[k].type = "NAG"
           /\ pipe.tokens[k].value = pipe.codes[k]

\* the half of C17 the code has: the symbols of the table are six
\* different ones, and each is read back as one NAG token, the symbol
NagSymbolsRead ==
  /\ \A a, b \in DOMAIN nagMap : nagMap[a] = nagMap[b] => a = b
  /\ pipe.stage = "read" =>
       /\ Len(pipe.tokens) = Len(pipe.codes)
       /\ \A k \in 1..Len(pipe.codes) :
            /\ pipe.tokens[k].type = "NAG"
            /\ pipe.tokens[k].value = nagToSymbol(pipe.codes[k])

RECURSIVE NoParentField(_)
\* neither the stored node nor any node stored below it has a parent field
NoParentField(nodeData) ==
  /\ "parent" \notin DOMAIN nodeData
  /\ \A k \in 1..Len(nodeData.children) :
       NoParentField(nodeData.children[k])

RECURSIVE SameNode(_, _, _, _, _)
\* the loaded node has the id, move, position, flag and comment of the
\* node n, the given parent, and as many children, which are the same as
\* the children of n, one by one, with the loaded node as their parent
SameNode(ns, n, heap, loaded, parent) ==
  /\ heap[loaded].id = n
  /\ heap[loaded].move = ns[n].move
  /\ heap[loaded].fen = ns[n].fen
  /\ heap[loaded].isMainLine = ns[n].isMainLine
  /\ heap[loaded].comment = ns[n].comment
  /\ heap[loaded].parent = parent
  /\ Len(heap[loaded].children) = Len(ns[n].children)
  /\ \A k \in 1..Len(ns[n].children) :
       SameNode(ns, ns[n].children[k], heap, heap[loaded].children[k], loaded)

\* C18: the stored form of a tree has no parent field, and the tree loaded
\* from it has the roots and children of the stored tree in their order,
\* each with its id, move, position, isMainLine flag and comment, each
\* child with the node holding it as parent and each root with none, and
\* no other node
C18_StorageRoundTrip ==
  /\ pipe.stage \in {"saved", "loaded"} =>
       \A k \in 1..Len(pipe.stored.rootNodes) :
         NoParentField(pipe.stored.rootNodes[k])
  /\ pipe.stage = "loaded" =>
       /\ Len(pipe.loaded.rootNodes) = Len(pipe.saved)
       /\ \A k \in 1..Len(pipe.saved) :
            SameNode(pipe.tree, pipe.saved[k], pipe.loaded.heap,
                     pipe.loaded.rootNodes[k], Null)
       /\ Len(pipe.loaded.heap)
            = Cardinality(Reachable(pipe.tree, pipe.saved))
       /\ pipe.loaded.initialFen = DefaultFen

\* a tree was loaded that has a variation below a root, and a comment
C18_Witness ==
  /\ pipe.stage = "loaded"
  /\ \E a \in 1..Len(pipe.loaded.heap) :
       /\ pipe.loaded.heap[a].parent # Null
       /\ ~pipe.loaded.heap[a].isMainLine
  /\ \E a \in 1..Len(pipe.loaded.heap) :
       pipe.loaded.heap[a].comment # << >>

\* C19: removeMove of the node n takes n and its descendants out of the
\* tree and nothing else: every other node is still in the tree with its
\* parent, move, position and comment, and with its children in their
\* order (the parent of n without n); the roots are the same (without n,
\* when n is a root); and no isMainLine flag changes but that of the
\* first remaining sibling of a main-line n. When n was the only child,
\* its parent is left with no child.
C19_RemoveFrame ==
  [][lastOp'.op = "removeMove" =>
       LET n == lastOp'.node
           p == nodes[n].parent
           gone == Subtree(nodes, n)
           kept == Reachable(nodes, rootNodes) \ gone
           siblings == IF p = Null THEN rootNodes ELSE nodes[p].children
           remaining == SelectSeq(siblings, LAMBDA m : m # n)
       IN /\ Reachable(nodes', rootNodes') = kept
          /\ rootNodes' = IF p = Null THEN remaining ELSE rootNodes
          /\ \A m \in kept :
               /\ nodes'[m].parent = nodes[m].parent
               /\ nodes'[m].move = nodes[m].move
               /\ nodes'[m].fen = nodes[m].fen
               /\ nodes'[m].comment = nodes[m].comment
               /\ nodes'[m].children = IF m = p THEN remaining
                                       ELSE nodes[m].children
               /\ nodes'[m].isMainLine # nodes[m].isMainLine
                    => /\ nodes[n].isMainLine
                       /\ Len(remaining) > 0
                       /\ m = remaining[1]
          /\ (p # Null /\ nodes[p].children = <<n>>)
               => nodes'[p].children = << >>]_vars

\* the only child of a node that has a parent itself was removed
C19_Witness ==
  /\ lastOp.op = "removeMove"
  /\ lastOp.parent # Null
  /\ lastOp.parent \in DOMAIN nodes
  /\ nodes[lastOp.parent].children = << >>
  /\ nodes[lastOp.parent].parent # Null

\* C20: when the onload handler was handed a tree that has a root together
\* with messages in the error list, the tree is the tree of the board and
\* the alert the user is shown has the messages of the import in it
C20_ErrorsSurfaced ==
  (lastOp.op = "importPgn" /\ lastOp.node # Null /\ lastOp.flag)
    => /\ rootNodes # << >>
       /\ currentNode = lastOp.node
       /\ lastOp.alert.list # << >>

\* the words of a text that are not white space
PlainWords(ws) == SelectSeq(ws, LAMBDA w : w \notin {Space, Newline})

RECURSIVE NestAfter(_, _)
\* how many variations are open after the first k of the words ws, a
\* closing parenthesis that closes nothing left out
NestAfter(ws, k) ==
  IF k = 0 THEN 0
  ELSE LET d == NestAfter(ws, k - 1)
       IN IF ws[k] = Open THEN d + 1
          ELSE IF ws[k] = Close /\ d > 0 THEN d - 1
          ELSE d

\* a closing parenthesis that closes nothing
StrayClose(ws) ==
  \E k \in 1..Len(ws) : ws[k] = Close /\ NestAfter(ws, k - 1) = 0

\* a variation with nothing in it
EmptyVariation(ws) ==
  \E k \in 1..(Len(ws) - 1) : ws[k] = Open /\ ws[k + 1] = Close

\* a variation that no move of its line precedes
HeadlessVariation(ws) ==
  \E k \in 1..Len(ws) : ws[k] = Open /\ (k = 1 \/ ws[k - 1] = Open)

\* C21: the import of a text with a malformed variation (an empty one, one
\* that no move precedes, or a closing parenthesis that closes nothing)
\* has a warning, and every move written outside a variation that no move
\* precedes is handled by the tree builder
C21_MalformedVariation ==
  LET ws == PlainWords(pipe.words)
  IN (/\ pipe.stage = "imported"
      /\ pipe.raw
      /\ StrayClose(ws) \/ EmptyVariation(ws) \/ HeadlessVariation(ws))
       => /\ pipe.first.warnings # << >>
          /\ ~HeadlessVariation(ws)
               => Len(pipe.first.log) = MoveCount(ws)

\* the siblings of the node n: the children of its parent, or the roots
SiblingsOf(ns, roots, n) ==
  IF ns[n].parent = Null THEN roots ELSE ns[ns[n].parent].children

\* C22: every variation is printed right after the main-line sibling of
\* its first move: that sibling is printed before the opening parenthesis,
\* and every move printed between the two belongs to another variation of
\* the same sibling
C22_VariationAfterSibling ==
  pipe.stage = "exported" =>
    LET parts == PrintedParts
        ns == pipe.first.nodes
        roots == pipe.first.rootNodes
    IN \A k \in 1..(Len(parts) - 1) :
         parts[k].text = Open =>
           LET v == parts[k + 1].node
               siblings == SiblingsOf(ns, roots, v)
               main == MainOrFirst(ns, siblings)
           IN \E j \in 1..(k - 1) :
                /\ parts[j].node = main
                /\ \A i \in (j + 1)..(k - 1) :
                     parts[i].node # Null =>
                       \E w \in Range(siblings) \ {main, v} :
                         parts[i].node \in Subtree(ns, w)

\* C23: a RESULT token ends its sequence: the AST built from tokens with
\* a RESULT among them outside every variation is the AST built from the
\* tokens before the first such RESULT
C23_ResultTerminates ==
  pipe.stage = "imported" =>
    \A k \in 1..Len(pipe.tokens) :
      (/\ pipe.tokens[k].type = "RESULT"
       /\ \A j \in 1..k : pipe.tokens[j].type \notin
                             {"VARIATION_START", "VARIATION_END"})
        => pipe.ast = buildAst(SubSeq(pipe.tokens, 1, k - 1)).ast

\* the tokens with each MOVE, COMMENT and NAG token given its place in
\* the tokens as value
Marked(tokens) ==
  [k \in 1..Len(tokens) |->
     IF tokens[k].type \in {"MOVE", "COMMENT", "NAG"}
     THEN Token(tokens[k].type, ToText(k))
     ELSE tokens[k]]

RECURSIVE AstMoves(_)
\* the MOVE nodes of an AST, those inside the variations included
AstMoves(ast) ==
  IF Len(ast) = 0 THEN { }
  ELSE (IF ast[1].type = "MOVE" THEN { ast[1] } ELSE { })
         \cup AstMoves(ast[1].children) \cup AstMoves(Tail(ast))

RECURSIVE PrevMove(_, _, _)
\* the last MOVE token before the place p in the sequence p is in (0 when
\* there is none), d variations being closed and not reopened on the way
PrevMove(tokens, p, d) ==
  IF p = 0 THEN 0
  ELSE IF tokens[p].type = "VARIATION_END" THEN PrevMove(tokens, p - 1, d + 1)
  ELSE IF tokens[p].type = "VARIATION_START"
       THEN IF d = 0 THEN 0 ELSE PrevMove(tokens, p - 1, d - 1)
  ELSE IF tokens[p].type = "MOVE" /\ d = 0 THEN p
  ELSE PrevMove(tokens, p - 1, d)

\* the first MOVE token after the place p (0 when there is none)
NextMove(tokens, p) ==
  IF \E q \in (p + 1)..Len(tokens) : tokens[q].type = "MOVE"
  THEN CHOOSE q \in (p + 1)..Len(tokens) :
         /\ tokens[q].type = "MOVE"
         /\ \A r \in (p + 1)..(q - 1) : tokens[r].type # "MOVE"
  ELSE 0

\* the MOVE token a COMMENT or NAG token at the place p belongs to: the
\* preceding one of its sequence, or else the next one
OwnerOf(tokens, p) ==
  IF PrevMove(tokens, p - 1, 0) # 0 THEN PrevMove(tokens, p - 1, 0)
  ELSE NextMove(tokens, p)

\* the places of the tokens of the given type that belong to the MOVE
\* token at the place m, in their order
OwnedBy(tokens, m, type) ==
  SelectSeq([k \in 1..Len(tokens) |-> k],
            LAMBDA k : tokens[k].type = type /\ OwnerOf(tokens, k) = m)

\* no closing parenthesis of the tokens closes nothing
NoStrayEnd(tokens) ==
  \A k \in 1..Len(tokens) :
    tokens[k].type = "VARIATION_END" =>
      Cardinality({ j \in 1..k : tokens[j].type = "VARIATION_START" })
        >= Cardinality({ j \in 1..k : tokens[j].type = "VARIATION_END" })

\* C24: in the AST built from tokens (no parenthesis closing nothing),
\* the comment of a Move is the last COMMENT token that belongs to it, and
\* its NAGs are the NAG tokens that belong to it, in their order; a
\* COMMENT or NAG token belongs to the preceding Move of its sequence, or
\* to the next Move when its sequence has no Move yet
C24_AnnotationOwner ==
  (pipe.stage = "imported" /\ NoStrayEnd(pipe.tokens)) =>
    LET tokens == Marked(pipe.tokens)
    IN \A node \in AstMoves(buildAst(tokens).ast) :
         \E m \in 1..Len(tokens) :
           LET comments == OwnedBy(tokens, m, "COMMENT")
               glyphs == OwnedBy(tokens, m, "NAG")
           IN /\ tokens[m].type = "MOVE"
              /\ node.san = ToText(m)
              /\ node.comment = IF Len(comments) = 0 THEN << >>
                                ELSE ToText(comments[Len(comments)])
              /\ node.nags = [k \in 1..Len(glyphs) |-> ToText(glyphs[k])]

\* an AST was built whose first move took a pending comment and whose
\* second move took the comment written after it
C24_Witness ==
  /\ pipe.stage = "imported"
  /\ Len(pipe.tokens) = 4
  /\ pipe.tokens[1].type = "COMMENT"
  /\ pipe.tokens[4].type = "COMMENT"
  /\ Len(pipe.ast) = 2
  /\ pipe.ast[1].comment # << >>
  /\ pipe.ast[2].comment # << >>

RECURSIVE NextInSequence(_, _, _)
\* the first MOVE token from the place p on in the sequence p is in (0
\* when the sequence ends without one), d variations being open on the way
NextInSequence(tokens, p, d) ==
  IF p > Len(tokens) THEN 0
  ELSE IF tokens[p].type = "VARIATION_START"
       THEN NextInSequence(tokens, p + 1, d + 1)
  ELSE IF tokens[p].type = "VARIATION_END"
       THEN IF d = 0 THEN 0 ELSE NextInSequence(tokens, p + 1, d - 1)
  ELSE IF tokens[p].type = "MOVE" /\ d = 0 THEN p
  ELSE NextInSequence(tokens, p + 1, d)

\* C25: a COMMENT or NAG token that no Move precedes and no Move follows
\* in its own sequence is discarded: no Move of the AST has it as comment
\* or among its NAGs
C25_PendingDiscarded ==
  pipe.stage = "imported" =>
    LET tokens == Marked(pipe.tokens)
    IN \A p \in 1..Len(tokens) :
         (/\ tokens[p].type \in {"COMMENT", "NAG"}
          /\ PrevMove(tokens, p - 1, 0) = 0
          /\ NextInSequence(tokens, p + 1, 0) = 0)
           => \A node \in AstMoves(buildAst(tokens).ast) :
                /\ node.comment # ToText(p)
                /\ \A k \in 1..Len(node.nags) : node.nags[k] # ToText(p)

RECURSIVE AstMoveSeq(_)
\* the MOVE nodes of an AST in the order the tree builder takes them: a
\* move, the moves of its variations, the rest of its sequence
AstMoveSeq(ast) ==
  IF Len(ast) = 0 THEN << >>
  ELSE (IF ast[1].type = "MOVE" THEN << ast[1] >> ELSE << >>)
         \o AstMoveSeq(ast[1].children) \o AstMoveSeq(Tail(ast))

\* how many of the characters of s are c
CountChar(s, c) == Cardinality({ k \in 1..Len(s) : s[k] = c })

\* C26: when every move of the AST applies, the node made of each Move
\* has the comment and the NAGs of that Move, and the exported text has
\* a glyph for every NAG
C26_AnnotationsKept ==
  (pipe.stage \in {"imported", "exported"} /\ pipe.first.errors = << >>)
    => LET moves == AstMoveSeq(pipe.ast)
           log == pipe.first.log
           ns == pipe.first.nodes
       IN /\ Len(log) = Len(moves)
          /\ \A k \in 1..Len(moves) :
               /\ log[k].node # Null
               /\ ns[log[k].node].move.san = moves[k].san
               /\ ns[log[k].node].comment = moves[k].comment
               /\ Len(moves[k].nags) > 0 =>
                    /\ "nags" \in DOMAIN ns[log[k].node]
                    /\ ns[log[k].node].nags = moves[k].nags
          /\ pipe.stage = "exported" =>
               \A k \in 1..Len(moves) :
                 Len(moves[k].nags) <= CountChar(pipe.text.movetext, "!")

\* the comments of C26 alone
CommentsKept ==
  (pipe.stage \in {"imported", "exported"} /\ pipe.first.errors = << >>)
    => LET moves == AstMoveSeq(pipe.ast)
           log == pipe.first.log
           ns == pipe.first.nodes
       IN /\ Len(log) = Len(moves)
          /\ \A k \in 1..Len(moves) :
               /\ log[k].node # Null
               /\ ns[log[k].node].move.san = moves[k].san
               /\ ns[log[k].node].comment = moves[k].comment

\* C27: the variations written after a move that fails are processed all
\* the same: of a text in which every variation follows a move, holds a
\* move and is closed, every move is handled by the tree builder (made a
\* node, or recorded as failed), whichever moves fail
C27_VariationsOfFailedMove ==
  (pipe.stage = "imported" /\ ~pipe.raw)
    => Len(pipe.first.log) = MoveCount(pipe.words)

\* the words without the unmatched characters written before the first
\* brace that is never closed
Matched(ws) ==
  SelectSeq([k \in 1..Len(ws) |->
               IF /\ ws[k] = <<"@">>
                  /\ \A j \in 1..k : ws[j] # <<"{">>
               THEN << >> ELSE ws[k]],
            LAMBDA w : w # << >>)

\* C28: tokenizePgn leaves its loop on every text; every turn of the loop
\* after which the loop goes on has moved the cursor forward; and the
\* tokens of a text are those of the text without its unmatched
\* characters
C28_ScanTerminates ==
  /\ [][pipe'.stage = "scanning" => pipe'.i > pipe.i]_vars
  /\ (pipe.stage = "scanning") ~> (pipe.stage = "scanned")
  /\ [](pipe.stage = "scanned" =>
          pipe.tokens
            = tokenizePgn(Pgn(<< >>, Join(Matched(pipe.words), <<" ">>))).tokens)

\* a text with an unmatched character before a move was scanned to its
\* end, and the move is among its tokens
C28_Witness ==
  /\ pipe.stage = "scanned"
  /\ Len(pipe.words) = 2
  /\ pipe.words[1] = <<"@">>
  /\ pipe.words[2] = E4
  /\ pipe.tokens # << >>
  /\ pipe.tokens[Len(pipe.tokens)] = Token("MOVE", E4)

\* how many places of the sibling lists of ns and of roots hold n
Holders(ns, roots, n) ==
  Cardinality({ k \in 1..Len(roots) : roots[k] = n })
    + Cardinality({ <<m, k>> \in (DOMAIN ns) \X (1..MaxNodes + 1) :
                      k <= Len(ns[m].children) /\ ns[m].children[k] = n })

RECURSIVE Up(_, _, _)
\* the node k parent links above n, or Null
Up(ns, n, k) ==
  IF n = Null \/ k = 0 THEN n ELSE Up(ns, ns[n].parent, k - 1)

\* C29: every node reachable from rootNodes is held by exactly one place
\* of the sibling lists, a child's parent is the node whose children hold
\* it, a root's parent is null, and the parent links of a node lead to a
\* root, which getPathToNode starts with
C29_ParentChildren ==
  \A n \in Reachable(nodes, rootNodes) :
    /\ Holders(nodes, rootNodes, n) = 1
    /\ \A m \in DOMAIN nodes :
         n \in Range(nodes[m].children) => nodes[n].parent = m
    /\ n \in Range(rootNodes) => nodes[n].parent = Null
    /\ \E k \in 0..Cardinality(DOMAIN nodes) :
         /\ Up(nodes, n, k) \in Range(rootNodes)
         /\ Up(nodes, n, k + 1) = Null
         /\ Len(PathTo(nodes, n)) = k + 1

\* a tree with a variation below a move was stored and loaded on a
\* switch of chapters
C29_Witness ==
  /\ lastOp.op = "handleChapterSwitch"
  /\ \E n \in Reachable(nodes, rootNodes) :
       /\ Len(nodes[n].children) = 2
       /\ \A c \in Range(nodes[n].children) : nodes[c].parent = n

\* how many parentheses are open after the first k characters of s
CharDepth(s, k) ==
  Cardinality({ j \in 1..k : s[j] = "(" })
    - Cardinality({ j \in 1..k : s[j] = ")" })

\* C30: the text exported for a forest that has a root has the move of
\* every node reachable from rootNodes exactly once, has one opening
\* parenthesis for every such node that is not the main-line choice among
\* its siblings (the roots are siblings), each followed by the move of
\* that node, and its parentheses are balanced
C30_ExportEachOnce ==
  pipe.stage = "exported" =>
    LET parts == PrintedParts
        ns == pipe.first.nodes
        roots == pipe.first.rootNodes
        text == pipe.text.movetext
        others == { n \in Reachable(ns, roots) :
                      n # MainOrFirst(ns, SiblingsOf(ns, roots, n)) }
    IN /\ \A n \in Reachable(ns, roots) :
            Cardinality({ k \in 1..Len(parts) : parts[k].node = n }) = 1
       /\ \A n \in others :
            \E k \in 2..Len(parts) :
              parts[k].node = n /\ parts[k - 1].text = Open
       /\ CountChar(text, "(") = Cardinality(others)
       /\ \A k \in 1..Len(text) : CharDepth(text, k) >= 0
       /\ CharDepth(text, Len(text)) = 0

\* a forest with two roots and a move that has two replies was exported
C30_Witness ==
  /\ pipe.stage = "exported"
  /\ Len(pipe.first.rootNodes) = 2
  /\ \E n \in Reachable(pipe.first.nodes, pipe.first.rootNodes) :
       Len(pipe.first.nodes[n].children) = 2
  /\ CountChar(pipe.text.movetext, "(") = 2

====
